---- MODULE Spec2Model ----
(***************************************************************************)
(* A model of CI_ReportGen: the histogram aggregation of Report.plot, the  *)
(* grade file search of grades_org, the indicator query of DataStore and   *)
(* the row loop of ReportGenerator.start_autogenerate.                     *)
(*                                                                         *)
(* Each subsystem has its own variables and its own specification; a       *)
(* specification leaves the other subsystems' variables at their idle      *)
(* values.                                                                 *)
(***************************************************************************)
EXTENDS Integers, Sequences, FiniteSets, TLC

VARIABLES
    \* ---- Report / Report.plot
    config,       \* the ReportConfig fields plot reads
    bins,         \* Report.bins
    caller_bins,  \* the list the caller handed to Report(...) as bins
    bin_labels,   \* Report.bin_labels
    traces,       \* Report.traces, the bar traces added so far
    grades,       \* the DataFrame given to the last plot call
    plot_state,   \* "new" | "plotted" | "ValueError"
    plot_log,     \* the values logged by the eviction warnings of plot
    \* ---- grades_org.find_grades_files
    find_call,    \* the last call: its arguments and what it returned
    \* ---- grades_org.directory_search
    listdir,      \* the grades directory: what os.listdir gives per folder
    search_call,  \* the last call: its arguments and what it returned
    \* ---- DataStore
    indicator_files,  \* the indicator sheets on disk, per program
    indicators,       \* DataStore.indicators: the tables loaded, per program
    query_call,       \* the last query_indicators call and its outcome
    \* ---- ReportGenerator.start_autogenerate
    gen_state,        \* "ready" | "running" | "done" | "raised"
    gen_error,        \* the exception that left start_autogenerate, or "none"
    gen_program,      \* the position in self.programs of the program in hand
    gen_rows,         \* the rows of its query, how many are processed, and
                      \* the rows of the queries before it
    gen_row,          \* the row processed last
    gen_saved,        \* the histograms saved for that row, in order
    missing_data,     \* the missing data files on disk, per program
    open_logs,        \* the programs whose missing data file is still open
    \* ---- textformatting
    text_call,        \* the last call of a textformatting function and its outcome
    \* ---- DataFrames made ready and grade sheets merged
    ready_call,       \* the last call of ReportGenerator.ready_DataFrame
    sheet_call        \* the last merge of a cohort column in separate_coop_sheet

plotVars == <<config, bins, caller_bins, bin_labels, traces, grades, plot_state,
              plot_log>>

findVars == <<find_call>>

searchVars == <<listdir, search_call>>

storeVars == <<indicator_files, indicators, query_call>>

genVars == <<gen_state, gen_error, gen_program, gen_rows, gen_row, gen_saved,
             missing_data, open_logs>>

textVars == <<text_call>>

frameVars == <<ready_call, sheet_call>>

vars == <<plotVars, findVars, searchVars, storeVars, genVars, textVars,
          frameVars>>

\* the values of a subsystem's variables while another one runs
NoCall == [fn |-> "none"]

IdlePlot ==
    /\ config = [show_NDA |-> TRUE, NDA_threshold |-> 10, max_plots |-> 1]
    /\ bins = <<>>
    /\ caller_bins = <<>>
    /\ bin_labels = <<>>
    /\ traces = <<>>
    /\ grades = <<>>
    /\ plot_state = "idle"
    /\ plot_log = <<>>

IdleFind == find_call = NoCall

IdleSearch == listdir = <<>> /\ search_call = NoCall

IdleStore == indicator_files = <<>> /\ indicators = <<>> /\ query_call = NoCall

IdleText == text_call = NoCall

IdleFrames == ready_call = NoCall /\ sheet_call = NoCall

NoRow == [rownum |-> -1]

IdleGen ==
    /\ gen_state = "idle"
    /\ gen_error = "none"
    /\ gen_program = 0
    /\ gen_rows = [n |-> 0, done |-> 0, before |-> 0]
    /\ gen_row = NoRow
    /\ gen_saved = <<>>
    /\ missing_data = <<>>
    /\ open_logs = {}

(***************************************************************************)
(* Bounds                                                                  *)
(***************************************************************************)
\* cells (columns times rows) of a grades DataFrame given to plot
MaxCells == 4

(***************************************************************************)
(* Small helpers over sequences                                            *)
(***************************************************************************)
Range(s) == {s[i] : i \in DOMAIN s}

RECURSIVE SeqsOfLen(_, _)
SeqsOfLen(S, n) ==
    IF n = 0 THEN {<<>>}
    ELSE {Append(s, x) : s \in SeqsOfLen(S, n - 1), x \in S}

(***************************************************************************)
(* Grade entries.  A cell of a grades DataFrame is a number, the null      *)
(* padding pandas puts in short columns, or a text entry.                  *)
(***************************************************************************)
Num(n) == [kind |-> "num", v |-> n]
NaN == [kind |-> "null", v |-> 0]
Text == [kind |-> "str", v |-> 0]

\* pd.isnull(x)
isnull(x) == x.kind = "null"

\* isinstance(x, type('string'))
isinstance_str(x) == x.kind = "str"

(***************************************************************************)
(* Percentages.  count / len * 100 is kept as the exact fraction           *)
(* num / den; den = 0 is the not-a-number NumPy yields for 0 / 0.          *)
(***************************************************************************)
Pct(count, n) == [num |-> count * 100, den |-> n]

IsNotANumber(p) == p.den = 0

\* p > t in place of p >= t
PctGT(p, t) == p.den # 0 /\ p.num > t * p.den

\* p >= t for a percentage p and a number t; any comparison with nan is False
PctGE(p, t) == p.den # 0 /\ p.num >= t * p.den

(***************************************************************************)
(* Report.__init__                                                         *)
(***************************************************************************)
DefaultBinLabels ==
    << "Below Expectations", "Marginally Meets Expectations",
       "Meets Expectations", "Exceeds Expectations" >>

\* self.bins: 0 goes in front of a list of 4 boundaries
ReportBins(bins_arg) ==
    IF Len(bins_arg) = 4 THEN <<0>> \o bins_arg ELSE bins_arg

\* The bin lists a Report is built with: the 4 boundaries of a lookup table,
\* the same with the floor given, and the co-op scale.
BinLists == { <<50, 60, 80, 100>>, <<0, 50, 60, 80, 100>>, <<0, 2, 3, 4, 5>> }

\* The ReportConfig fields plot reads.  NDA_threshold is held in hundredths
\* (10 is the default 0.10), so that it is the number NDA_threshold*100 of
\* the comparison in plot.
Configs ==
    [show_NDA : BOOLEAN, NDA_threshold : {10, 50}, max_plots : {1, 2}]

(***************************************************************************)
(* The grades DataFrames: every column has the same number of rows, short  *)
(* columns being padded with nulls; the column names are 1, 2, ... in      *)
(* column order.                                                           *)
(***************************************************************************)
IsCoop(b) == b[Len(b)] - b[Len(b) - 1] = 1

\* the marks that occur in a grade file for a bin list; -1 is the
\* placeholder mark of a 'no data' column
Marks(b) == IF IsCoop(b) THEN {-1, 2, 5} ELSE {-1, 55, 100}

Entries(b) == {Num(m) : m \in Marks(b)} \cup {NaN, Text}

Shapes == {sh \in (1..MaxCells) \X (1..MaxCells) : sh[1] * sh[2] <= MaxCells}

Frames(b) ==
    UNION { SeqsOfLen(SeqsOfLen(Entries(b), sh[2]), sh[1]) : sh \in Shapes }

\* grades.columns, grades[col]
Columns(g) == DOMAIN g

(***************************************************************************)
(* grades_org.true_size                                                    *)
(***************************************************************************)
RECURSIVE NonNull(_)
\* the list the loop builds: the entries of ser that are not null, in order
NonNull(ser) ==
    IF ser = <<>> THEN <<>>
    ELSE IF ~isnull(Head(ser)) THEN <<Head(ser)>> \o NonNull(Tail(ser))
    ELSE NonNull(Tail(ser))

true_size(ser) == Len(NonNull(ser))

(***************************************************************************)
(* numpy.histogram(a, bins)[0]: bucket i counts the values in              *)
(* [edges[i], edges[i+1]), the last bucket also holding its upper edge;    *)
(* values outside the edges are counted nowhere.                           *)
(***************************************************************************)
InBucket(x, edges, i) ==
    /\ edges[i] <= x
    /\ IF i = Len(edges) - 1 THEN x <= edges[i + 1] ELSE x < edges[i + 1]

np_histogram(a, edges) ==
    [i \in 1..(Len(edges) - 1) |->
        Cardinality({k \in DOMAIN a : InBucket(a[k].v, edges, i)})]

(***************************************************************************)
(* Report.plot                                                             *)
(***************************************************************************)
\* the copy of the bins with no boundary moved
UnshiftedBins(b) == b

\* lines 103-110: the copy of the bins, every boundary but the first moved
\* up by 1 when the last two differ by 1
ShiftedBins(b) ==
    IF b[Len(b)] - b[Len(b) - 1] = 1
    THEN [i \in DOMAIN b |-> IF i = 1 THEN b[i] ELSE b[i] + 1]
    ELSE b

\* lines 116-118
BinsCopy(cfg, b) ==
    IF cfg.show_NDA THEN <<-1>> \o ShiftedBins(b) ELSE ShiftedBins(b)

\* lines 126-137: the column holds a text entry, plot raises ValueError
RaisesOnColumn(ser) == \E i \in DOMAIN ser : isinstance_str(ser[i])

\* line 140: np.histogram raises ValueError for bins that decrease
Monotonic(edges) == \A i \in 1..(Len(edges) - 1) : edges[i] <= edges[i + 1]

\* lines 125-128
DataToHistogram(ser) == NonNull(ser)

\* ColumnPercents with the padded size of the column as the denominator
ColumnPercentsOfPaddedSize(ser, edges) ==
    LET d == DataToHistogram(ser)
        h == np_histogram(d, edges)
    IN  [i \in DOMAIN h |-> Pct(h[i], Len(ser))]

\* line 140: the percentages of one column
ColumnPercents(ser, edges) ==
    LET d == DataToHistogram(ser)
        h == np_histogram(d, edges)
    IN  [i \in DOMAIN h |-> Pct(h[i], Len(d))]

\* ThresholdReached with > in place of >=
ThresholdExceeded(p, cfg) ==
    p.den # 0 /\ p.num > cfg.NDA_threshold * p.den

\* line 145: the test of a column's first bucket against the threshold
ThresholdReached(p, cfg) == PctGE(p, cfg.NDA_threshold)

\* lines 123-149, one pass of the loop body over the column col of g.
\* acc holds the locals: data (the dict, in insertion order), the label
\* copy, delete_NDA, and whether ValueError was raised.
PlotColumn(acc, g, col, cfg, edges) ==
    IF acc.raised THEN acc
    ELSE IF RaisesOnColumn(g[col]) \/ ~Monotonic(edges)
    THEN [acc EXCEPT !.raised = TRUE]
    ELSE
        LET y == ColumnPercents(g[col], edges)
            hit == /\ cfg.show_NDA
                   /\ acc.delete_NDA
                   /\ ThresholdReached(y[1], cfg)
        IN  [ data |-> Append(acc.data, [name |-> col, y |-> y]),
              labels |-> IF hit THEN <<"No Data Available">> \o acc.labels
                         ELSE acc.labels,
              delete_NDA |-> IF hit THEN FALSE ELSE acc.delete_NDA,
              raised |-> FALSE ]

RECURSIVE PlotColumns(_, _, _, _, _)
\* the loop of lines 122-149 over the first n columns
PlotColumns(g, n, cfg, edges, labels) ==
    IF n = 0
    THEN [data |-> <<>>, labels |-> labels, delete_NDA |-> TRUE, raised |-> FALSE]
    ELSE PlotColumn(PlotColumns(g, n - 1, cfg, edges, labels), g, n, cfg, edges)

\* lines 151-155: np.delete(data[key], 0) for every key
StripFirst(data) ==
    [k \in DOMAIN data |-> [name |-> data[k].name, y |-> Tail(data[k].y)]]

RECURSIVE EvictNewest(_, _, _)
\* Evict popping the last key in place of the first
EvictNewest(data, max_plots, logged) ==
    IF Len(data) > max_plots
    THEN EvictNewest(SubSeq(data, 1, Len(data) - 1), max_plots,
                     Append(logged, data[Len(data)].y))
    ELSE [data |-> data, logged |-> logged]

RECURSIVE Evict(_, _, _)
\* lines 157-163: data.pop(first key) while there are more than max_plots
\* series; every removed value is logged
Evict(data, max_plots, logged) ==
    IF Len(data) > max_plots
    THEN Evict(Tail(data), max_plots, Append(logged, Head(data).y))
    ELSE [data |-> data, logged |-> logged]

\* lines 165-186: one go.Bar per remaining key
Bars(data, labels) ==
    [k \in DOMAIN data |-> [name |-> data[k].name, x |-> labels, y |-> data[k].y]]

\* PlotResult with each column barred as soon as it is histogrammed, so that
\* the columns before a text entry are already in the traces when it raises
PlotResultBarringInLoop(cfg, b, labels, g) ==
    LET acc == PlotColumns(g, Len(g), cfg, BinsCopy(cfg, b), labels)
        kept == IF acc.delete_NDA THEN StripFirst(acc.data) ELSE acc.data
        ev == Evict(kept, cfg.max_plots, <<>>)
    IN  IF acc.raised
        THEN [raised |-> TRUE, bars |-> Bars(acc.data, acc.labels),
              logged |-> <<>>]
        ELSE [raised |-> FALSE, bars |-> Bars(ev.data, acc.labels),
              logged |-> ev.logged]

\* Report.plot(grades): what the call raises, adds to Report.traces and logs
PlotResult(cfg, b, labels, g) ==
    LET acc == PlotColumns(g, Len(g), cfg, BinsCopy(cfg, b), labels)
        kept == IF acc.delete_NDA THEN StripFirst(acc.data) ELSE acc.data
        ev == Evict(kept, cfg.max_plots, <<>>)
    IN  IF acc.raised
        THEN [raised |-> TRUE, bars |-> <<>>, logged |-> <<>>]
        ELSE [raised |-> FALSE, bars |-> Bars(ev.data, acc.labels),
              logged |-> ev.logged]

\* plot working on self.bins itself, with no copy
BinsShiftedInPlace(cfg, b) == BinsCopy(cfg, b)

\* lines 102 and 117: self.bins after plot, which works on bins_copy, a
\* copy that [-1.0] + bins_copy rebinds
BinsAfterPlot(cfg, b) == b

\* lines 66-70: the caller's list is the object self.bins names unless it
\* had 4 boundaries, when self.bins is the new list [0] + bins
CallerBins(list, self_bins) == IF Len(list) = 4 THEN list ELSE self_bins

\* a Report as its constructor leaves it
NewReport(cfg, bins_arg) ==
    /\ config' = cfg
    /\ bins' = ReportBins(bins_arg)
    /\ caller_bins' = bins_arg
    /\ bin_labels' = DefaultBinLabels
    /\ traces' = <<>>
    /\ grades' = <<>>
    /\ plot_state' = "new"
    /\ plot_log' = <<>>

InitPlot ==
    \E cfg \in Configs, bins_arg \in BinLists :
        /\ config = cfg
        /\ bins = ReportBins(bins_arg)
        /\ caller_bins = bins_arg
        /\ bin_labels = DefaultBinLabels
        /\ traces = <<>>
        /\ grades = <<>>
        /\ plot_state = "new"
        /\ plot_log = <<>>
        /\ IdleFind /\ IdleSearch /\ IdleStore /\ IdleGen /\ IdleText /\ IdleFrames

\* Report(indicator_data, bins, config): the next report of the run
Report ==
    /\ plot_state # "new"
    /\ \E cfg \in Configs, bins_arg \in BinLists : NewReport(cfg, bins_arg)
    /\ UNCHANGED <<frameVars, findVars, searchVars, storeVars, genVars, textVars>>

\* report.plot(grades)
Plot ==
    /\ plot_state = "new"
    /\ \E g \in Frames(bins) :
        LET r == PlotResult(config, bins, bin_labels, g)
        IN  /\ grades' = g
            /\ traces' = traces \o r.bars
            /\ plot_log' = plot_log \o r.logged
            /\ plot_state' = IF r.raised THEN "ValueError" ELSE "plotted"
    /\ bins' = BinsAfterPlot(config, bins)
    /\ caller_bins' = CallerBins(caller_bins, bins')
    /\ UNCHANGED <<config, bin_labels>>
    /\ UNCHANGED <<frameVars, findVars, searchVars, storeVars, genVars, textVars>>

NextPlot == Report \/ Plot

SpecPlot == InitPlot /\ [][NextPlot]_vars

(***************************************************************************)
(* Properties of Report.plot, checked under SpecPlot                       *)
(***************************************************************************)
NDALabel == "No Data Available"

\* the non-null entries of column col of the plotted frame
Present(col) == {k \in DOMAIN grades[col] : grades[col][k].kind # "null"}

\* the entries of column col with lo <= mark < hi, or <= hi when closed
Within(col, lo, hi, closed) ==
    {k \in Present(col) :
        /\ grades[col][k].kind = "num"
        /\ lo <= grades[col][k].v
        /\ IF closed THEN grades[col][k].v <= hi ELSE grades[col][k].v < hi}

\* the entries of column col that are 'no data' marks: below the floor
NoData(col) == Within(col, -1, bins[1], FALSE)

\* column col is at or above / strictly above the threshold
AtThreshold(col) ==
    /\ Present(col) # {}
    /\ 100 * Cardinality(NoData(col)) >= config.NDA_threshold * Cardinality(Present(col))

AboveThreshold(col) ==
    /\ Present(col) # {}
    /\ 100 * Cardinality(NoData(col)) > config.NDA_threshold * Cardinality(Present(col))

TraceIds == DOMAIN traces

\* every trace carries the NDA bucket and label / carries neither
NDARetained ==
    \A t \in TraceIds :
        /\ traces[t].x = <<NDALabel>> \o bin_labels
        /\ Len(traces[t].y) = Len(bin_labels) + 1

NDAStripped ==
    \A t \in TraceIds :
        /\ traces[t].x = bin_labels
        /\ Len(traces[t].y) = Len(bin_labels)

\* C1: every plotted series has as many percentage values as there are
\* resolved labels, the labels are the configured ones in order with
\* 'No Data Available' in front only when the NDA bucket was retained, and
\* with show_NDA false no bucket is removed from any series.
C1_SeriesMatchLabels ==
    plot_state = "plotted" =>
        /\ \A t \in TraceIds :
            /\ Len(traces[t].y) = Len(traces[t].x)
            /\ \/ traces[t].x = bin_labels
               \/ traces[t].x = <<NDALabel>> \o bin_labels
        /\ ~config.show_NDA =>
            \A t \in TraceIds : Len(traces[t].y) = Len(bins) - 1

\* C2 as stated: with show_NDA true the NDA bucket and label are retained
\* for every series if some series is strictly above NDA_threshold*100 and
\* stripped from every series otherwise; the label is added at most once.
C2_RetainedIffStrictlyAbove ==
    (plot_state = "plotted" /\ config.show_NDA) =>
        IF \E col \in DOMAIN grades : AboveThreshold(col)
        THEN NDARetained
        ELSE NDAStripped

\* C2 as amended: with show_NDA true the NDA bucket and label are retained
\* for every series if some series has an NDA percentage greater than or
\* equal to NDA_threshold*100 and stripped from every series otherwise; the
\* label is added at most once.
C2_RetainedIffAtThreshold ==
    (plot_state = "plotted" /\ config.show_NDA) =>
        IF \E col \in DOMAIN grades : AtThreshold(col)
        THEN NDARetained
        ELSE NDAStripped

\* one series exactly at the threshold and one below it, both retained
C2_Witness ==
    /\ plot_state = "plotted"
    /\ config.show_NDA
    /\ config.max_plots = 2
    /\ Len(grades) = 2
    /\ AtThreshold(1) /\ ~AboveThreshold(1)
    /\ ~AtThreshold(2)
    /\ Len(traces) = 2
    /\ NDARetained

HasText == \E col \in DOMAIN grades : \E k \in DOMAIN grades[col] :
               grades[col][k].kind = "str"

AllEdges == <<-1>> \o ShiftedBins(bins)

\* C5: for every plotted series with at least one non-null entry, each
\* bucket's value is 100 * (non-null entries in the bucket) / (non-null
\* entries), and the denominator is what true_size reports for the column.
C5_PercentOfTrueSize ==
    plot_state = "plotted" =>
        \A t \in TraceIds :
            LET col == traces[t].name
                y == traces[t].y
                off == Len(AllEdges) - 1 - Len(y)
            IN  Present(col) # {} =>
                    \A j \in DOMAIN y :
                        /\ y[j].den = Cardinality(Present(col))
                        /\ y[j].den = true_size(grades[col])
                        /\ y[j].num = 100 * Cardinality(
                               Within(col, AllEdges[j + off], AllEdges[j + off + 1],
                                      j + off = Len(AllEdges) - 1))

\* a plotted series with null padding among its marks
C5_Witness ==
    /\ plot_state = "plotted"
    /\ \E t \in TraceIds :
        LET col == traces[t].name
        IN  /\ \E k \in DOMAIN grades[col] : grades[col][k].kind = "null"
            /\ Cardinality(Present(col)) >= 2
            /\ \E j \in DOMAIN traces[t].y :
                   traces[t].y[j].num > 0 /\ traces[t].y[j].num < 100 * traces[t].y[j].den

\* C6: a series of true size 0 never yields not-a-number percentages: it
\* has every bucket at 0% or is not plotted.
C6_NoUndefinedPercent ==
    plot_state = "plotted" =>
        \A t \in TraceIds : \A j \in DOMAIN traces[t].y :
            ~IsNotANumber(traces[t].y[j])

\* the names of the plotted series, in trace order
TraceNames == [t \in TraceIds |-> traces[t].name]

\* C7: with more series than max_plots the retained series are the
\* max_plots most recently inserted, in their original order, and each
\* eviction is logged; with at most max_plots series nothing is evicted.
C7_EvictEarliest ==
    plot_state = "plotted" =>
        LET n == Len(grades)
            kept == IF n > config.max_plots THEN config.max_plots ELSE n
        IN  /\ TraceNames = [t \in 1..kept |-> n - kept + t]
            /\ Len(plot_log) = n - kept

\* three series with max_plots 2: one eviction, logged
C7_Witness ==
    /\ plot_state = "plotted"
    /\ Len(grades) = 3
    /\ config.max_plots = 2
    /\ Len(traces) = 2
    /\ Len(plot_log) = 1

(***************************************************************************)
(* Strings, as sequences of characters                                     *)
(***************************************************************************)
UpperCase == {"E", "N", "L", "A", "B", "X", "S", "C", "K", "O"}

\* the character's lower-case form
LowerChar(c) ==
    CASE c = "E" -> "e" [] c = "N" -> "n" [] c = "L" -> "l" [] c = "A" -> "a"
      [] c = "B" -> "b" [] c = "X" -> "x" [] c = "S" -> "s" [] c = "C" -> "c"
      [] c = "K" -> "k" [] c = "O" -> "o" [] OTHER -> c

\* str.lower()
lower(str) == [i \in DOMAIN str |-> LowerChar(str[i])]

\* the characters str.split() splits on
Whitespace == {" ", "\t"}

RECURSIVE split(_)
\* str.split(): the maximal runs of characters that are not whitespace
split(str) ==
    IF str = <<>> THEN <<>>
    ELSE IF Head(str) \in Whitespace THEN split(Tail(str))
    ELSE LET rest == split(Tail(str))
         IN  IF Len(str) > 1 /\ str[2] \notin Whitespace
             THEN <<<<Head(str)>> \o Head(rest)>> \o Tail(rest)
             ELSE <<<<Head(str)>>>> \o rest

RECURSIVE join(_)
\* "".join(words)
join(words) ==
    IF words = <<>> THEN <<>> ELSE Head(words) \o join(Tail(words))

\* str.startswith(prefix), str.endswith(suffix)
startswith(str, prefix) ==
    Len(prefix) <= Len(str) /\ SubSeq(str, 1, Len(prefix)) = prefix

endswith(str, suffix) ==
    /\ Len(suffix) <= Len(str)
    /\ SubSeq(str, Len(str) - Len(suffix) + 1, Len(str)) = suffix

xlsx == <<".", "x", "l", "s", "x">>

(***************************************************************************)
(* grades_org.find_grades_files                                            *)
(***************************************************************************)
\* find_grades_files with the extension looked for in the lower-cased name
FileMatchesAnyCase(course, assessment, file) ==
    /\ startswith(join(split(lower(file))),
                  join(split(lower(course \o assessment))))
    /\ endswith(lower(file), xlsx)

\* lines 128-140: both entries of bool_results are true
FileMatches(course, assessment, file) ==
    /\ startswith(join(split(lower(file))),
                  join(split(lower(course \o assessment))))
    /\ endswith(file, xlsx)

RECURSIVE find_grades_files(_, _, _)
\* lines 126-144: the loop over file_list, appending the matches
find_grades_files(course, assessment, file_list) ==
    IF file_list = <<>> THEN <<>>
    ELSE LET file == file_list[Len(file_list)]
             matches == find_grades_files(course, assessment,
                                          SubSeq(file_list, 1, Len(file_list) - 1))
         IN  IF FileMatches(course, assessment, file)
             THEN Append(matches, file)
             ELSE matches

\* bound: the files of a file_list
MaxFiles == 2

\* the course numbers and assessment types searched for
Courses == { <<"E", "N", " ", "1">>, <<"e", "n", "2">> }

Assessments == { <<"L", "a", "b">>, <<" ", "l", "\t", "A", "B", " ">> }

\* the names a grades folder holds: a course, an assessment, what follows
\* them, and an extension
NameCourses == { <<"e", "n", "1">>, <<"E", "N", " ", "2">> }

NameAssessments == { <<" ", "L", "a", "b">>, <<"L", " ", "A", "B">>, <<" ", "L", "b">> }

NameTails == { <<>>, <<" ", "-", " ", "C">> }

NameExtensions == { xlsx, <<".", "t", "x", "t">>, <<".", "X", "L", "S", "X">> }

FileNames ==
    { c \o a \o t \o e : c \in NameCourses, a \in NameAssessments,
                         t \in NameTails, e \in NameExtensions }

FileLists == UNION { SeqsOfLen(FileNames, n) : n \in 0..MaxFiles }

InitFind == IdlePlot /\ IdleSearch /\ IdleStore /\ IdleGen /\ IdleText /\ find_call = NoCall /\ IdleFrames

\* a call of find_grades_files(course, assessment, file_list)
FindGradesFiles ==
    /\ find_call = NoCall
    /\ \E course \in Courses, assessment \in Assessments, file_list \in FileLists :
        find_call' = [ fn |-> "find_grades_files",
                       course |-> course, assessment |-> assessment,
                       file_list |-> file_list,
                       returned |-> find_grades_files(course, assessment, file_list) ]
    /\ UNCHANGED <<frameVars, plotVars, searchVars, storeVars, genVars, textVars>>

NextFind == FindGradesFiles

SpecFind == InitFind /\ [][NextFind]_vars

(***************************************************************************)
(* Properties of find_grades_files, checked under SpecFind                 *)
(***************************************************************************)
NotWhitespace(c) == c \notin Whitespace

\* a name with its whitespace removed and lower-cased
Normalized(str) == SelectSeq(lower(str), NotWhitespace)

\* the criterion as the specification words it
WantedFor(course, assessment, f) ==
    /\ startswith(Normalized(f), Normalized(course \o assessment))
    /\ endswith(f, xlsx)

Wanted(f) == WantedFor(find_call.course, find_call.assessment, f)

\* C8: find_grades_files returns exactly the names of file_list, in input
\* order and with input multiplicity, whose whitespace-free lower-case form
\* starts with that of course+assessment and whose original form ends
\* with '.xlsx'.
C8_ExactlyTheMatches ==
    find_call.fn = "find_grades_files" =>
        find_call.returned = SelectSeq(find_call.file_list, Wanted)

\* a call that keeps a name differing from the query in case and spacing
\* and drops a name that starts the same but has its extension in upper case
C8_Witness ==
    /\ find_call.fn = "find_grades_files"
    /\ Len(find_call.file_list) = 2
    /\ \E i \in 1..2 :
        /\ Wanted(find_call.file_list[i])
        /\ ~startswith(find_call.file_list[i],
                       find_call.course \o find_call.assessment)
    /\ \E i \in 1..2 :
        /\ startswith(Normalized(find_call.file_list[i]),
                      Normalized(find_call.course \o find_call.assessment))
        /\ ~endswith(find_call.file_list[i], xlsx)
        /\ endswith(lower(find_call.file_list[i]), xlsx)
    /\ Len(find_call.returned) = 1

(***************************************************************************)
(* grades_org.directory_search                                             *)
(***************************************************************************)
\* bound: the folders of a subdirs list
MaxSubdirs == 3

\* the folders under the grades directory
Folders == {"ENCM", "Core", "ECE"}

Folder(files) == [exists |-> TRUE, files |-> files]

NoFolder == [exists |-> FALSE, files |-> <<>>]

\* what a folder can hold: nothing, one grade file of course 1, a text
\* file and two grade files of course 1, or the folder is not there
FolderStates ==
    { NoFolder,
      Folder(<<>>),
      Folder(<< <<"e", "n", "1", " ", "L", "a", "b", ".", "x", "l", "s", "x">> >>),
      Folder(<< <<"e", "n", "1", " ", "L", "a", "b", ".", "t", "x", "t">>,
                <<"e", "n", "1", "L", " ", "A", "B", " ", "-", " ", "C", ".", "x", "l", "s", "x">>,
                <<"e", "n", "1", " ", "L", "a", "b", ".", "x", "l", "s", "x">> >>) }

SubdirLists == UNION { SeqsOfLen(Folders, n) : n \in 0..MaxSubdirs }

\* a dict, which iterates in insertion order: its keys in that order and
\* the value of each
EmptyDict == [keys |-> <<>>, val |-> <<>>]

\* d[k] = v: a key already there keeps its place
DictSet(d, k, v) ==
    [ keys |-> IF k \in Range(d.keys) THEN d.keys ELSE Append(d.keys, k),
      val |-> [x \in Range(d.keys) \cup {k} |-> IF x = k THEN v ELSE d.val[x]] ]

\* the loop body with a folder entered in results only when it has a match
SearchFolderIfFound(acc, course, assessment, fs, folder) ==
    IF acc.raised THEN acc
    ELSE IF ~fs[folder].exists THEN [acc EXCEPT !.raised = TRUE]
    ELSE LET ls == find_grades_files(course, assessment, fs[folder].files)
         IN  IF ls # <<>>
             THEN [acc EXCEPT !.results = DictSet(acc.results, folder, ls)]
             ELSE acc

\* lines 176-182, one pass of the loop body: os.listdir raises
\* FileNotFoundError for a folder that is not there
SearchFolder(acc, course, assessment, fs, folder) ==
    IF acc.raised THEN acc
    ELSE IF ~fs[folder].exists THEN [acc EXCEPT !.raised = TRUE]
    ELSE LET ls == find_grades_files(course, assessment, fs[folder].files)
         IN  [acc EXCEPT !.results = DictSet(acc.results, folder, <<>> \o ls)]

RECURSIVE directory_search(_, _, _, _)
\* lines 174-184: what the call raises or returns for the grades directory fs
directory_search(course, assessment, fs, subdirs) ==
    IF subdirs = <<>> THEN [raised |-> FALSE, results |-> EmptyDict]
    ELSE SearchFolder(
             directory_search(course, assessment, fs,
                              SubSeq(subdirs, 1, Len(subdirs) - 1)),
             course, assessment, fs, subdirs[Len(subdirs)])

InitSearch ==
    /\ IdlePlot /\ IdleFind /\ IdleStore /\ IdleGen /\ IdleText /\ IdleFrames
    /\ listdir \in [Folders -> FolderStates]
    /\ search_call = NoCall

\* a call of directory_search(course, assessment, main_dir, subdirs)
DirectorySearch ==
    /\ search_call = NoCall
    /\ \E course \in Courses, assessment \in Assessments, subdirs \in SubdirLists :
        LET r == directory_search(course, assessment, listdir, subdirs)
        IN  search_call' = [ fn |-> "directory_search",
                             course |-> course, assessment |-> assessment,
                             subdirs |-> subdirs,
                             raised |-> r.raised, returned |-> r.results ]
    /\ UNCHANGED <<frameVars, plotVars, findVars, storeVars, genVars, textVars, listdir>>

NextSearch == DirectorySearch

SpecSearch == InitSearch /\ [][NextSearch]_vars

(***************************************************************************)
(* Properties of directory_search, checked under SpecSearch                *)
(***************************************************************************)
Returned == search_call.fn = "directory_search" /\ ~search_call.raised

\* the folders of subdirs in priority order, each at its first place
InPriorityOrder(keys, subdirs) ==
    /\ Range(keys) = Range(subdirs)
    /\ \A i, j \in DOMAIN keys : i # j => keys[i] # keys[j]
    /\ \A i, j \in DOMAIN keys :
        i < j =>
            \E a \in DOMAIN subdirs :
                /\ subdirs[a] = keys[i]
                /\ \A b \in DOMAIN subdirs : subdirs[b] = keys[j] => a < b

\* C9: directory_search returns a mapping whose keys are exactly the given
\* subdirectories, in priority order, every searched subdirectory being a
\* key even with no match, each mapped to the matches of its own listing.
C9_EveryFolderInOrder ==
    Returned =>
        /\ InPriorityOrder(search_call.returned.keys, search_call.subdirs)
        /\ DOMAIN search_call.returned.val = Range(search_call.subdirs)
        /\ \A k \in Range(search_call.subdirs) :
            search_call.returned.val[k] =
                SelectSeq(listdir[k].files,
                          LAMBDA f : WantedFor(search_call.course,
                                               search_call.assessment, f))

\* the three folders searched with a match in Core only
C9_Witness ==
    /\ Returned
    /\ search_call.subdirs = <<"ENCM", "Core", "ECE">>
    /\ search_call.returned.keys = <<"ENCM", "Core", "ECE">>
    /\ search_call.returned.val["ENCM"] = <<>>
    /\ Len(search_call.returned.val["Core"]) = 2
    /\ search_call.returned.val["ECE"] = <<>>

(***************************************************************************)
(* DataStore.query_indicators                                              *)
(***************************************************************************)
\* bound: the rows of an indicator table
MaxTableRows == 2

\* the substring test of Python's in, and of a regular expression search
\* for a pattern without metacharacters
Contains(str, sub) ==
    \E i \in 1..(Len(str) - Len(sub) + 1) : SubSeq(str, i, i + Len(sub) - 1) = sub

\* an indicator table: its column names, and its rows in sheet order, each
\* with its index and one text cell per column
TableColumns == << <<"C", "a">>, <<"c", "B">> >>

CellValues == { <<"K", "B">>, <<"k", "b">>, <<"P", "A">> }

TableRows(n) ==
    { [i \in 1..n |-> [idx |-> i - 1, cells |-> cs[i]]] :
        cs \in SeqsOfLen(SeqsOfLen(CellValues, Len(TableColumns)), n) }

Tables ==
    { [columns |-> TableColumns, rows |-> rs] :
        rs \in UNION { TableRows(n) : n \in 0..MaxTableRows } }

\* the sheet of a program on disk, read by pd.read_excel
Sheet(t) == [exists |-> TRUE, table |-> t]

NoSheet == [exists |-> FALSE, table |-> [columns |-> <<>>, rows |-> <<>>]]

\* the programs of the store
Programs == {"ENCM"}

\* the whitelists: None, or a dict of lists of values in insertion order
FilterKeys == { <<"c">>, <<"B">>, <<"x">> }

FilterValues == { <<>>, << <<"K">> >>, << <<"k">>, <<"P">> >> }

NoFilters == [given |-> FALSE, items |-> <<>>]

RECURSIVE DistinctKeySeqs(_)
\* the sequences of distinct keys of K
DistinctKeySeqs(K) ==
    {<<>>} \cup UNION { { <<k>> \o rest : rest \in DistinctKeySeqs(K \ {k}) } : k \in K }

Filters ==
    {NoFilters} \cup
    UNION { { [given |-> TRUE,
               items |-> [i \in DOMAIN ks |-> [key |-> ks[i], values |-> vs[i]]]] :
                 vs \in SeqsOfLen(FilterValues, Len(ks)) } :
            ks \in DistinctKeySeqs(FilterKeys) }

\* the column positions whose name contains the key, ignoring case
MatchingColumns(columns, key) ==
    {i \in DOMAIN columns : Contains(lower(columns[i]), lower(key))}

\* TargetColumn taking the last matching column
LastMatchingColumn(columns, key) ==
    IF MatchingColumns(columns, key) = {} THEN 0
    ELSE CHOOSE i \in MatchingColumns(columns, key) :
             \A j \in MatchingColumns(columns, key) : j <= i

\* line 128: next(...) over the columns in order, 0 standing for None
TargetColumn(columns, key) ==
    IF MatchingColumns(columns, key) = {} THEN 0
    ELSE CHOOSE i \in MatchingColumns(columns, key) :
             \A j \in MatchingColumns(columns, key) : i <= j

\* line 138-139: re.compile('|'.join(values)) searched in a cell; the
\* pattern of an empty list is the empty pattern, found in every cell
PatternFound(values, cell) ==
    IF values = <<>> THEN TRUE
    ELSE \E v \in Range(values) : Contains(cell, v)

\* lines 126-141, one pass of the loop body: last_query[None] raises
\* KeyError when no column matches the key
ApplyFilter(acc, item) ==
    IF acc.raised # "none" THEN acc
    ELSE LET col == TargetColumn(acc.last_query.columns, item.key)
             Keep(row) == PatternFound(item.values, row.cells[col])
         IN  IF col = 0 THEN [acc EXCEPT !.raised = "KeyError"]
             ELSE [acc EXCEPT !.last_query.rows = SelectSeq(@, Keep)]

RECURSIVE ApplyFilters(_, _)
\* the loop of lines 126-141 over the dict's keys
ApplyFilters(table, items) ==
    IF items = <<>> THEN [raised |-> "none", last_query |-> table]
    ELSE ApplyFilter(ApplyFilters(table, SubSeq(items, 1, Len(items) - 1)),
                     items[Len(items)])

\* lines 112-143: what the call raises or returns, and the tables loaded
\* after it; a program not loaded is read from disk first
query_indicators(files, loaded, program, dict_of_queries) ==
    IF program \notin DOMAIN loaded /\ ~files[program].exists
    THEN [raised |-> "FileNotFoundError", returned |-> NoSheet.table,
          indicators |-> loaded]
    ELSE
        LET now == IF program \in DOMAIN loaded THEN loaded
                   ELSE [p \in DOMAIN loaded \cup {program} |->
                            IF p = program THEN files[p].table ELSE loaded[p]]
            r == IF dict_of_queries.given /\ dict_of_queries.items # <<>>
                 THEN ApplyFilters(now[program], dict_of_queries.items)
                 ELSE [raised |-> "none", last_query |-> now[program]]
        IN  [raised |-> r.raised,
             returned |-> IF r.raised = "none" THEN r.last_query ELSE NoSheet.table,
             indicators |-> now]

\* lines 59-75: the store as its constructor leaves it, the sheets of its
\* programs list loaded
InitStore ==
    /\ IdlePlot /\ IdleFind /\ IdleSearch /\ IdleGen /\ IdleText /\ IdleFrames
    /\ indicator_files \in [Programs -> {Sheet(t) : t \in Tables} \cup {NoSheet}]
    /\ \E loaded \in SUBSET {p \in Programs : indicator_files[p].exists} :
        indicators = [p \in loaded |-> indicator_files[p].table]
    /\ query_call = NoCall

\* a call of query_indicators(program, dict_of_queries)
QueryIndicators ==
    /\ query_call = NoCall
    /\ \E program \in Programs, dict_of_queries \in Filters :
        LET r == query_indicators(indicator_files, indicators, program, dict_of_queries)
        IN  /\ query_call' = [ fn |-> "query_indicators", program |-> program,
                               dict_of_queries |-> dict_of_queries,
                               raised |-> r.raised, returned |-> r.returned ]
            /\ indicators' = r.indicators
    /\ UNCHANGED <<frameVars, plotVars, findVars, searchVars, genVars, textVars, indicator_files>>

NextStore == QueryIndicators

SpecStore == InitStore /\ [][NextStore]_vars

(***************************************************************************)
(* Properties of query_indicators, checked under SpecStore                 *)
(***************************************************************************)
QueryReturned == query_call.fn = "query_indicators" /\ query_call.raised = "none"

\* the table of the queried program
QueriedTable == indicator_files[query_call.program].table

\* the first column whose name contains the key, ignoring case
FirstColumnFor(key) ==
    CHOOSE i \in DOMAIN QueriedTable.columns :
        /\ Contains(lower(QueriedTable.columns[i]), lower(key))
        /\ \A j \in 1..(i - 1) : ~Contains(lower(QueriedTable.columns[j]), lower(key))

\* every key has one of its values in the row's target column, ignoring case
HoldsIgnoringCase(row) ==
    \A n \in DOMAIN query_call.dict_of_queries.items :
        LET item == query_call.dict_of_queries.items[n]
        IN  \E v \in Range(item.values) :
                Contains(lower(row.cells[FirstColumnFor(item.key)]), lower(v))

\* every key has one of its values in the row's target column, in the
\* value's own case, or has no value at all
HoldsInCase(row) ==
    \A n \in DOMAIN query_call.dict_of_queries.items :
        LET item == query_call.dict_of_queries.items[n]
        IN  \/ item.values = <<>>
            \/ \E v \in Range(item.values) :
                   Contains(row.cells[FirstColumnFor(item.key)], v)

HasColumn(key) ==
    \E i \in DOMAIN QueriedTable.columns :
        Contains(lower(QueriedTable.columns[i]), lower(key))

\* every key that has a column has one of its values in the row's cell
HoldsForMatchedKeys(row) ==
    \A n \in DOMAIN query_call.dict_of_queries.items :
        LET item == query_call.dict_of_queries.items[n]
        IN  HasColumn(item.key) =>
                \/ item.values = <<>>
                \/ \E v \in Range(item.values) :
                       Contains(row.cells[FirstColumnFor(item.key)], v)

\* C11: a filter key that matches no column of the table does not stop the
\* query: no exception leaves query_indicators, and the rows returned are
\* those the remaining keys select.
C11_UnmatchedKeyDoesNotStopQuery ==
    (/\ query_call.fn = "query_indicators"
     /\ indicator_files[query_call.program].exists
     /\ query_call.dict_of_queries.given
     /\ \E n \in DOMAIN query_call.dict_of_queries.items :
            ~HasColumn(query_call.dict_of_queries.items[n].key)) =>
        /\ query_call.raised = "none"
        /\ query_call.returned.rows =
               SelectSeq(QueriedTable.rows, HoldsForMatchedKeys)

(***************************************************************************)
(* DataStore.__init__                                                      *)
(***************************************************************************)
\* the programs a store may be built for
StorePrograms == {"ENCM", "ENEL", "ENPR"}

\* lists of distinct programs, the programs argument of the constructor
RECURSIVE ProgramLists(_)
ProgramLists(P) ==
    {<<>>} \cup UNION { {<<p>> \o rest : rest \in ProgramLists(P \ {p})} : p \in P }

\* the sheets the indicator files of the constructor's runs hold
StoreSheets ==
    { Sheet([columns |-> TableColumns, rows |-> <<>>]),
      Sheet([columns |-> TableColumns,
             rows |-> <<[idx |-> 0, cells |-> << <<"K", "B">>, <<"P", "A">> >>]>>]) }

RECURSIVE LoadIndicators(_, _, _)
\* lines 71-75: the loop over programs; pd.read_excel raises
\* FileNotFoundError for a file that is not there
LoadIndicators(acc, files, progs) ==
    IF progs = <<>> \/ acc.raised # "none" THEN acc
    ELSE LET p == Head(progs)
         IN  LoadIndicators(
                 IF files[p].exists
                 THEN [acc EXCEPT !.indicators =
                          [q \in DOMAIN @ \cup {p} |->
                              IF q = p THEN files[p].table ELSE @[q]]]
                 ELSE [acc EXCEPT !.raised = "FileNotFoundError"],
                 files, Tail(progs))

\* DataStore(programs): the exception that leaves the constructor and the
\* tables in self.indicators when it does or when construction completes
DataStoreInit(files, progs) ==
    LoadIndicators([raised |-> "none", indicators |-> <<>>], files, progs)

InitNewStore ==
    /\ IdlePlot /\ IdleFind /\ IdleSearch /\ IdleGen /\ IdleText /\ IdleFrames
    /\ indicator_files \in [StorePrograms -> StoreSheets \cup {NoSheet}]
    /\ indicators = <<>>
    /\ query_call = NoCall

\* a call of DataStore(programs=...) with a list of programs
NewDataStore ==
    /\ query_call = NoCall
    /\ \E progs \in ProgramLists(StorePrograms) \ {<<>>} :
       \E r \in {DataStoreInit(indicator_files, progs)} :
           /\ query_call' = [fn |-> "__init__", programs |-> progs,
                             raised |-> r.raised]
           /\ indicators' = r.indicators
    /\ UNCHANGED <<frameVars, plotVars, findVars, searchVars, genVars, textVars, indicator_files>>

NextNewStore == NewDataStore

SpecNewStore == InitNewStore /\ [][NextNewStore]_vars

\* C12: constructing the store for programs of which one has no indicator
\* file completes: no exception leaves the constructor, and the tables
\* loaded are those of the listed programs whose files exist.
C12_MissingFileNotFatal ==
    (/\ query_call.fn = "__init__"
     /\ \E k \in DOMAIN query_call.programs :
            ~indicator_files[query_call.programs[k]].exists) =>
        /\ query_call.raised = "none"
        /\ DOMAIN indicators =
               {p \in Range(query_call.programs) : indicator_files[p].exists}

(***************************************************************************)
(* textformatting.get_cohort and get_cohort_coop                           *)
(***************************************************************************)
Digits == {"0", "1", "2", "3", "4", "5", "6", "7", "8", "9"}

\* int() of a one-digit string
DigitValue(c) ==
    CASE c = "0" -> 0 [] c = "1" -> 1 [] c = "2" -> 2 [] c = "3" -> 3
      [] c = "4" -> 4 [] c = "5" -> 5 [] c = "6" -> 6 [] c = "7" -> 7
      [] c = "8" -> 8 [] c = "9" -> 9

\* re.search("\d", course): the position of the first digit, 0 for None
SearchDigit(course) ==
    IF \E i \in DOMAIN course : course[i] \in Digits
    THEN CHOOSE i \in DOMAIN course :
             /\ course[i] \in Digits
             /\ \A j \in 1..(i - 1) : course[j] \notin Digits
    ELSE 0

\* an optional argument: left out (None) or given
None == [given |-> FALSE, v |-> 0]
Given(v) == [given |-> TRUE, v |-> v]
NoCourse == [given |-> FALSE, s |-> <<>>]
Course(s) == [given |-> TRUE, s |-> s]

\* lines 155-156: the term, from the override or from the course
TermFromFirstDigit(course, term_taken) ==
    IF term_taken.given THEN [raised |-> "none", term |-> term_taken.v]
    ELSE IF ~course.given THEN [raised |-> "TypeError", term |-> 0]
    ELSE IF SearchDigit(course.s) = 0
    THEN [raised |-> "AttributeError", term |-> 0]
    ELSE [raised |-> "none", term |-> DigitValue(course.s[SearchDigit(course.s)])]

\* the override taken only when it is truthy
TermFromTruthyOverride(course, term_taken) ==
    TermFromFirstDigit(course,
                       IF term_taken.v = 0 THEN None ELSE term_taken)

\* lines 155-156
TermTaken(course, term_taken) == TermFromFirstDigit(course, term_taken)

RECURSIVE DropSemester(_)
\* lines 160-161: while year > 9999: year //= 10
DropSemester(year) == IF year > 9999 THEN DropSemester(year \div 10) ELSE year

\* the year left as it was passed
KeepSemester(year) == year

\* lines 160-161
YearOf(year) == DropSemester(year)

\* a table that adds 4 in term 5
CohortOffsetByPairs(term) ==
    CASE term \in {1, 2} -> 5
      [] term \in {3, 4} -> 4
      [] term \in {5, 6} -> 4
      [] term \in {7, 8} -> 2
      [] OTHER -> 0

\* a chain that ends in an else branch adding 1
CohortOffsetLastElse(term) ==
    CASE term \in {1, 2} -> 5
      [] term \in {3, 4} -> 4
      [] term = 5 -> 3
      [] term \in {6, 7} -> 2
      [] OTHER -> 1

\* lines 167-178: what is added to the year
CohortOffset(term) ==
    CASE term \in {1, 2} -> 5
      [] term \in {3, 4} -> 4
      [] term = 5 -> 3
      [] term \in {6, 7} -> 2
      [] term = 8 -> 1
      [] OTHER -> 0

\* get_cohort(year, course, term_taken)
get_cohort(year, course, term_taken) ==
    LET t == TermTaken(course, term_taken)
    IN  IF t.raised # "none" THEN [raised |-> t.raised, returned |-> 0]
        ELSE IF t.term = 0 THEN [raised |-> "none", returned |-> YearOf(year)]
        ELSE [raised |-> "none",
              returned |-> YearOf(year) + CohortOffset(t.term)]

\* the first cohort for every work term
FirstCohortWTsAll(semester) == {1, 2, 3, 4}

\* line 236: [WTs[i] for i in range(0, 4-semester)]
first_cohort_WTs(semester) == {i + 1 : i \in 0..(4 - semester - 1)}

\* get_cohort_coop(year_and_semester, WT)
get_cohort_coop(year_and_semester, WT) ==
    LET year == year_and_semester \div 100
        semester == year_and_semester % 10
        first_cohort == year + semester + 2
    IN  IF WT \notin {1, 2, 3, 4}
        THEN [raised |-> "ValueError", returned |-> 0]
        ELSE IF WT \in first_cohort_WTs(semester)
        THEN [raised |-> "none", returned |-> first_cohort]
        ELSE [raised |-> "none", returned |-> first_cohort - 2]

\* academic years, and the same with a semester behind them
FourDigitYears == {2017, 2018, 2019, 9999}
Semesters == {1, 2, 3}
YearInputs ==
    FourDigitYears
        \cup {y * 10 + 3 : y \in FourDigitYears}
        \cup {y * 100 + s : y \in FourDigitYears, s \in Semesters}

TermInputs == {None} \cup {Given(t) : t \in 0..9}

CourseInputs ==
    { NoCourse,
      Course(<<"E", "N", "G", "I", "1", "0", "1", "0">>),
      Course(<<"E", "N", "G", "I", " ", "0", "0", "1", "W">>),
      Course(<<"C", "H", "E", "M", "8", "0", "5", "1">>),
      Course(<<"E", "N", "G", "I", "9", "8", "7", "6">>),
      Course(<<"M", "A", "T", "H">>) }

\* year_and_semester values, the semester digit 1 to 3 and beside it 0 and 4
CoopInputs == {y * 100 + s : y \in {2017, 2018}, s \in 0..4}

WorkTerms == 0..6

InitCohort ==
    /\ IdlePlot /\ IdleFind /\ IdleSearch /\ IdleStore /\ IdleGen /\ IdleFrames
    /\ text_call = NoCall

\* a call of get_cohort(year, course=..., term_taken=...)
GetCohort ==
    /\ \E year \in YearInputs, course \in CourseInputs,
          term_taken \in TermInputs :
       \E r \in {get_cohort(year, course, term_taken)} :
           text_call' = [fn |-> "get_cohort", year |-> year,
                         course |-> course, term_taken |-> term_taken,
                         raised |-> r.raised, returned |-> r.returned]
    /\ UNCHANGED <<frameVars, plotVars, findVars, searchVars, storeVars, genVars>>

\* a call of get_cohort_coop(year_and_semester, WT)
GetCohortCoop ==
    /\ \E year_and_semester \in CoopInputs, WT \in WorkTerms :
       \E r \in {get_cohort_coop(year_and_semester, WT)} :
           text_call' = [fn |-> "get_cohort_coop",
                         year_and_semester |-> year_and_semester, WT |-> WT,
                         raised |-> r.raised, returned |-> r.returned]
    /\ UNCHANGED <<frameVars, plotVars, findVars, searchVars, storeVars, genVars>>

NextCohort == GetCohort \/ GetCohortCoop

SpecCohort == InitCohort /\ [][NextCohort]_vars

(***************************************************************************)
(* Claims about get_cohort and get_cohort_coop                             *)
(***************************************************************************)
\* the 4-digit academic year of an input of up to six digits
AcademicYear(x) ==
    IF x <= 9999 THEN x ELSE IF x <= 99999 THEN x \div 10 ELSE x \div 100

\* the offset table of the claim
ClaimedOffset(t) ==
    IF t \in {1, 2} THEN 5
    ELSE IF t \in {3, 4} THEN 4
    ELSE IF t = 5 THEN 3
    ELSE IF t \in {6, 7} THEN 2
    ELSE 1

CohortCalled == text_call.fn = "get_cohort"

\* whether the call names a term: an override, or a course with a digit
TermNamed ==
    \/ text_call.term_taken.given
    \/ text_call.course.given /\ SearchDigit(text_call.course.s) # 0

\* the term the call names
NamedTerm ==
    IF text_call.term_taken.given THEN text_call.term_taken.v
    ELSE DigitValue(text_call.course.s[SearchDigit(text_call.course.s)])

\* C13: for a term in 1..8, given as term_taken or else as the first digit
\* of the course, get_cohort returns the academic year of its input plus the
\* offset of the term (5, 5, 4, 4, 3, 2, 2, 1); get_cohort(2017, term 1) is
\* 2022 and get_cohort(2017, term 8) is 2018.
C13_YearPlusOffset ==
    (CohortCalled /\ TermNamed /\ NamedTerm \in 1..8) =>
        /\ text_call.raised = "none"
        /\ text_call.returned =
               AcademicYear(text_call.year) + ClaimedOffset(NamedTerm)
        /\ (AcademicYear(text_call.year) = 2017 /\ NamedTerm = 1) =>
               text_call.returned = 2022
        /\ (AcademicYear(text_call.year) = 2017 /\ NamedTerm = 8) =>
               text_call.returned = 2018

\* a year with a semester behind it and the term read from the course
C13_Witness ==
    /\ CohortCalled
    /\ text_call.year = 201703
    /\ ~text_call.term_taken.given
    /\ text_call.course = Course(<<"C", "H", "E", "M", "8", "0", "5", "1">>)
    /\ text_call.returned = 2018

\* two calls in a row with the same term in 1..8 given as term_taken
SameTermTwice ==
    /\ text_call.fn = "get_cohort"
    /\ text_call'.fn = "get_cohort"
    /\ text_call.term_taken.given
    /\ text_call.term_taken.v \in 1..8
    /\ text_call'.term_taken = text_call.term_taken

\* C14 as stated: for a fixed term in 1..8, get_cohort is non-decreasing in
\* its year argument as passed, 4-digit years and year+semester values
\* alike.
C14_NonDecreasingInArgument ==
    [][(SameTermTwice /\ text_call.year <= text_call'.year) =>
           text_call.returned <= text_call'.returned]_vars

\* C14 as amended: for a fixed term in 1..8, get_cohort is non-decreasing in
\* the academic year of its argument.
C14_NonDecreasingInAcademicYear ==
    [][(SameTermTwice
        /\ AcademicYear(text_call.year) <= AcademicYear(text_call'.year)) =>
           text_call.returned <= text_call'.returned]_vars

\* a year+semester input whose cohort lies below that of the smaller
\* 4-digit input 2019
C14_Witness ==
    /\ CohortCalled
    /\ text_call.year = 201703
    /\ text_call.term_taken = Given(5)
    /\ text_call.returned = 2020
    /\ text_call.returned < 2019 + 3

\* C15: an override given as term_taken decides the term, the value 0
\* included, whatever the course; without one the first digit of the course
\* does; with the term 0 the academic year is returned as it is and nothing
\* is raised.
C15_OverrideThenFirstDigit ==
    (CohortCalled /\ TermNamed /\ NamedTerm \in 0..8) =>
        /\ text_call.raised = "none"
        /\ text_call.returned =
               IF NamedTerm = 0 THEN AcademicYear(text_call.year)
               ELSE AcademicYear(text_call.year) + ClaimedOffset(NamedTerm)

\* the override 0 given beside a course of term 1
C15_Witness ==
    /\ CohortCalled
    /\ text_call.term_taken = Given(0)
    /\ text_call.course = Course(<<"E", "N", "G", "I", "1", "0", "1", "0">>)
    /\ text_call.year = 201703
    /\ text_call.returned = 2017

\* C16: for a semester digit s in 1..3, get_cohort_coop returns
\* year + s + 2 for the work terms 1..(4 - s) and year + s for the work
\* terms (4 - s + 1)..4, with year the input divided by 100, and raises
\* ValueError for a work term outside 1..4; (201701, 1) gives 2020,
\* (201701, 4) gives 2018, (201703, 1) gives 2022, (201703, 2) gives 2020.
C16_CoopCohort ==
    text_call.fn = "get_cohort_coop" =>
        LET s == text_call.year_and_semester % 10
            year == text_call.year_and_semester \div 100
            w == text_call.WT
        IN  /\ w \notin 1..4 => text_call.raised = "ValueError"
            /\ (s \in 1..3 /\ w \in 1..(4 - s)) =>
                   /\ text_call.raised = "none"
                   /\ text_call.returned = year + s + 2
            /\ (s \in 1..3 /\ w \in (4 - s + 1)..4) =>
                   /\ text_call.raised = "none"
                   /\ text_call.returned = year + s
            /\ (text_call.year_and_semester = 201701 /\ w = 1) =>
                   text_call.returned = 2020
            /\ (text_call.year_and_semester = 201701 /\ w = 4) =>
                   text_call.returned = 2018
            /\ (text_call.year_and_semester = 201703 /\ w = 1) =>
                   text_call.returned = 2022
            /\ (text_call.year_and_semester = 201703 /\ w = 2) =>
                   text_call.returned = 2020

\* the second work term of a spring semester, past the first cohort
C16_Witness ==
    /\ text_call.fn = "get_cohort_coop"
    /\ text_call.year_and_semester = 201703
    /\ text_call.WT = 2
    /\ text_call.returned = 2020

(***************************************************************************)
(* ReportGenerator.start_autogenerate and gen_and_save_histograms          *)
(***************************************************************************)
\* rows of the queries of one run, all programs together
MaxRows == 2

\* self.programs, in the order start_autogenerate walks them
programs == <<"ENCM", "ENEL">>

\* config.grade_backup_dirs, split on commas and stripped
grade_backup_dirs == <<"Core", "ECE">>

\* search_list = [program] + the backup directories
search_list(program) == <<program>> \o grade_backup_dirs

\* the 'Assessed' cell of a row: the column may be missing from the table,
\* the cell may be blank (NaN), or it holds text
AssessedCells ==
    { [kind |-> "absent", s |-> <<>>],
      [kind |-> "null", s |-> <<>>],
      [kind |-> "str", s |-> <<"Y", "e", "s">>],
      [kind |-> "str", s |-> <<"N", "o">>],
      [kind |-> "str", s |-> <<"N", "O">>] }

\* the 'Bins' cell of a row: the np.nan object itself, a NaN float that is
\* another object, text that is no list of numbers, or a list of numbers:
\* four ascending ones, two ascending ones, four descending ones
BinsCells ==
    { [cell |-> "np.nan", floats |-> <<>>],
      [cell |-> "nan", floats |-> <<>>],
      [cell |-> "words", floats |-> <<>>],
      [cell |-> "numbers", floats |-> <<50, 60, 80, 100>>],
      [cell |-> "numbers", floats |-> <<50, 60>>],
      [cell |-> "numbers", floats |-> <<100, 80, 60, 50>>] }

\* grade files on disk: two of numbers only, one with a text entry
GradeFile == [name |-> "Grade.xlsx", grades |-> << <<Num(55), Num(100)>> >>]
GradeFileByTerm ==
    [name |-> "Grade by Term.xlsx", grades |-> << <<Num(55)>>, <<Num(100)>> >>]
GradeFileWithText ==
    [name |-> "Grade.xlsx", grades |-> << <<Num(55), Text>> >>]

PlainLists == { <<>>, <<GradeFile>> }
OtherLists == { <<GradeFile, GradeFileByTerm>>, <<GradeFileWithText>> }

\* what directory_search finds for a row: a list of files per directory of
\* the search list; at most one directory holds two files or a file with
\* text, and the directories after that one are empty
FoundGradeFiles(program) ==
    LET dirs == search_list(program)
    IN  { f \in [Range(dirs) -> PlainLists \cup OtherLists] :
            \A i \in DOMAIN dirs :
                f[dirs[i]] \in OtherLists =>
                    /\ \A j \in DOMAIN dirs :
                           j < i => f[dirs[j]] \in PlainLists
                    /\ \A j \in DOMAIN dirs : j > i => f[dirs[j]] = <<>> }

NothingFound(program) == [d \in Range(search_list(program)) |-> <<>>]

\* a line of the missing data file; rownum stands for the course, the
\* assessment, the indicator and the level the line prints
Line(text, rownum) == [text |-> text, rownum |-> rownum]

\* _parse_row: the bins of the row as floats, or None (here <<>>)
parse_row(row) ==
    IF row.Bins.cell = "numbers" THEN row.Bins.floats ELSE <<>>

\* Report.generate_report(indicator_data, bins, config, grades)
generate_report(bins_arg, cfg, g) ==
    PlotResult(cfg, ReportBins(bins_arg), DefaultBinLabels, g)

\* the name a histogram is saved under
SaveName(files, file) ==
    IF Len(files) = 1
    THEN [format |-> "{program} {row} {ind}-{lvl} {cfg}", i |-> ""]
    ELSE [format |-> "{program} {row} {ind}-{lvl}_{i} {cfg}", i |-> file.name]

Saved(dir, name, from) == [dir |-> dir, name |-> name, data_from |-> from]

\* the loop over the files of one directory
RECURSIVE SaveFiles(_, _, _, _, _, _)
SaveFiles(acc, files, k, dir, bins_arg, cfg) ==
    IF k > Len(files) \/ acc.raised # "none" THEN acc
    ELSE LET file == files[k]
             \* self.cohorts is None: ready_DataFrame renames the columns
             \* and keeps every one of them
             rprt == generate_report(bins_arg, cfg, file.grades)
             name == SaveName(files, file)
             here == <<Saved(dir, name, dir)>>
             extra == IF acc.save_extra_to # ""
                      THEN <<Saved(acc.save_extra_to, name, dir)>>
                      ELSE <<>>
         IN  IF rprt.raised
             THEN [acc EXCEPT !.raised = "ValueError"]
             ELSE SaveFiles([acc EXCEPT !.saved = @ \o here \o extra],
                            files, k + 1, dir, bins_arg, cfg)

\* AfterFiles without line 675: the extra copies go on
AfterFilesStillCopying(done) == done

\* line 675: after the files of a directory, no further extra copies
AfterFiles(done) ==
    IF done.raised # "none" THEN done ELSE [done EXCEPT !.save_extra_to = ""]

\* the loop over the directories, in priority order
RECURSIVE SaveDirs(_, _, _, _, _, _)
SaveDirs(acc, dirs_and_files, dir_priorities, d, bins_arg, cfg) ==
    IF d > Len(dir_priorities) \/ acc.raised # "none" THEN acc
    ELSE LET dir == dir_priorities[d]
         IN  SaveDirs(IF dirs_and_files[dir] = <<>>
                      THEN [acc EXCEPT !.empty_locations = @ + 1]
                      ELSE AfterFiles(SaveFiles(acc, dirs_and_files[dir], 1,
                                                dir, bins_arg, cfg)),
                      dirs_and_files, dir_priorities, d + 1, bins_arg, cfg)

NoDataFound == << <<Num(-1)>> >>

NDAName == [format |-> "{program} {row} {ind}-{lvl} {cfg} NDA", i |-> ""]

\* AfterDirs without the line for the missing data file
AfterDirsUnlogged(walked, dir_priorities, rownum, program, blank) ==
    IF walked.raised # "none"
    THEN [raised |-> walked.raised, saved |-> walked.saved, lines |-> <<>>]
    ELSE IF walked.empty_locations = Len(dir_priorities)
    THEN [raised |-> "none",
          saved |-> << Saved(program, NDAName, "NO DATA FOUND"),
                       Saved(program, NDAName, "NO DATA FOUND") >>,
          lines |-> <<>>]
    ELSE [raised |-> "none", saved |-> walked.saved, lines |-> <<>>]

\* lines 677-722: the blank histogram when every directory came up empty
AfterDirs(walked, dir_priorities, rownum, program, blank) ==
    IF walked.raised # "none"
    THEN [raised |-> walked.raised, saved |-> walked.saved, lines |-> <<>>]
    ELSE IF walked.empty_locations = Len(dir_priorities)
    THEN IF blank.raised
         THEN [raised |-> "ValueError", saved |-> <<>>,
               lines |-> <<Line("Missing data", rownum)>>]
         ELSE [raised |-> "none",
               saved |-> << Saved(program, NDAName, "NO DATA FOUND"),
                            Saved(program, NDAName, "NO DATA FOUND") >>,
               lines |-> <<Line("Missing data", rownum)>>]
    ELSE [raised |-> "none", saved |-> walked.saved, lines |-> <<>>]

\* gen_and_save_histograms: the exception it raises, the histograms it
\* saves and the lines it writes to the missing data file
gen_and_save_histograms(dirs_and_files, dir_priorities, bins_arg, rownum, program, cfg) ==
    AfterDirs(SaveDirs([raised |-> "none", saved |-> <<>>,
                        empty_locations |-> 0,
                        save_extra_to |->
                            IF dirs_and_files[dir_priorities[1]] = <<>>
                            THEN dir_priorities[1] ELSE ""],
                       dirs_and_files, dir_priorities, 1, bins_arg, cfg),
              dir_priorities, rownum, program,
              generate_report(bins_arg, cfg, NoDataFound))

Quiet == [raised |-> "none", saved |-> <<>>, lines |-> <<>>]

\* the same with the bins looked at before the 'Assessed' cell
RowBodyBinsFirst(row, program, cfg) ==
    IF row.Bins.cell = "np.nan"
    THEN [Quiet EXCEPT !.lines = <<Line("Missing bin ranges", row.rownum)>>]
    ELSE IF row.Assessed.kind = "null"
    THEN [Quiet EXCEPT !.raised = "AttributeError"]
    ELSE IF row.Assessed.kind = "str" /\ lower(row.Assessed.s) = <<"n", "o">>
    THEN Quiet
    ELSE IF parse_row(row) = <<>>
    THEN [Quiet EXCEPT !.lines = <<Line("No useable bins", row.rownum)>>]
    ELSE gen_and_save_histograms(row.found, search_list(program),
                                 parse_row(row), row.rownum, program, cfg)

\* the body of the loop over the rows of the query
RowBody(row, program, cfg) ==
    IF row.Assessed.kind = "null"
    THEN [Quiet EXCEPT !.raised = "AttributeError"]
    ELSE IF row.Assessed.kind = "str" /\ lower(row.Assessed.s) = <<"n", "o">>
    THEN Quiet
    ELSE IF row.Bins.cell = "np.nan"
    THEN [Quiet EXCEPT !.lines = <<Line("Missing bin ranges", row.rownum)>>]
    ELSE IF parse_row(row) = <<>>
    THEN [Quiet EXCEPT !.lines = <<Line("No useable bins", row.rownum)>>]
    ELSE gen_and_save_histograms(row.found, search_list(program),
                                 parse_row(row), row.rownum, program, cfg)

\* whether the body gets as far as the search for grade files
Searches(assessed, bins_cell) ==
    /\ assessed.kind # "null"
    /\ ~(assessed.kind = "str" /\ lower(assessed.s) = <<"n", "o">>)
    /\ bins_cell.cell = "numbers"

\* what the directories hold for a row marked as not assessed, which is
\* never searched for: nothing, or a grade file in the program's own
Unsearched(program) ==
    { NothingFound(program),
      [NothingFound(program) EXCEPT ![program] = <<GradeFile>>] }

\* a missing data file as an earlier run left it
StaleLog == <<Line("Missing data", 1)>>

InitGen ==
    /\ IdlePlot /\ IdleFind /\ IdleSearch /\ IdleStore /\ IdleText /\ IdleFrames
    /\ gen_state = "ready"
    /\ gen_error = "none"
    /\ gen_program = 0
    /\ gen_rows = [n |-> 0, done |-> 0, before |-> 0]
    /\ gen_row = NoRow
    /\ gen_saved = <<>>
    /\ \E log \in {<<>>, StaleLog} :
           missing_data = [p \in Range(programs) |-> log]
    /\ open_logs = {}

\* the code never calls close(): when the name missing_data is rebound or
\* the function returns, the handle of the program at position k is left to
\* the runtime, which closes it at once (reference counting) or leaves it
\* open (a collector that has not run yet)
Dropped(handles, k) ==
    IF k = 0 THEN {handles} ELSE {handles, handles \ {programs[k]}}

\* the head of the loop over the programs: the query of the program's
\* indicators, then open(..., "w+") of its missing data file
NextProgram ==
    /\ \/ gen_state = "ready"
       \/ gen_state = "running" /\ gen_rows.done = gen_rows.n
    /\ gen_program < Len(programs)
    /\ LET program == programs[gen_program + 1]
       IN  \/ /\ gen_state' = "raised"
              /\ gen_error' = "KeyError"
              /\ UNCHANGED <<gen_rows, missing_data, open_logs>>
           \/ \E n \in 0..(MaxRows - (gen_rows.before + gen_rows.n)) :
                  /\ gen_state' = "running"
                  /\ gen_error' = "none"
                  /\ gen_rows' = [n |-> n, done |-> 0,
                                  before |-> gen_rows.before + gen_rows.n]
                  /\ missing_data' = [missing_data EXCEPT ![program] = <<>>]
                  /\ \E kept \in Dropped(open_logs, gen_program) :
                         open_logs' = kept \cup {program}
    /\ gen_program' = gen_program + 1
    /\ gen_row' = NoRow
    /\ gen_saved' = <<>>
    /\ UNCHANGED <<frameVars, plotVars, findVars, searchVars, storeVars, textVars>>

\* one pass of the loop over the rows of the query
ProcessRow ==
    /\ gen_state = "running"
    /\ gen_rows.done < gen_rows.n
    /\ LET program == programs[gen_program]
       IN  \E assessed \in AssessedCells, bins_cell \in BinsCells :
           \E found \in (IF Searches(assessed, bins_cell)
                         THEN FoundGradeFiles(program)
                         ELSE IF assessed.kind = "str" /\ assessed.s # <<"Y", "e", "s">>
                         THEN Unsearched(program)
                         ELSE {NothingFound(program)}) :
           \E row \in {[rownum |-> gen_rows.done + 1, Assessed |-> assessed,
                         Bins |-> bins_cell, found |-> found]} :
           \E out \in {RowBody(row, program, config)} :
               /\ gen_row' = row
               /\ gen_saved' = out.saved
               /\ missing_data' =
                      [missing_data EXCEPT ![program] = @ \o out.lines]
               /\ gen_error' = out.raised
               /\ gen_state' =
                      IF out.raised = "none" THEN "running" ELSE "raised"
               /\ gen_rows' = [gen_rows EXCEPT !.done = @ + 1]
    /\ UNCHANGED <<frameVars, plotVars, findVars, searchVars, storeVars, textVars, gen_program,
                   open_logs>>

\* the end of start_autogenerate: "Autogeneration done!"
Finish ==
    /\ gen_state = "running"
    /\ gen_rows.done = gen_rows.n
    /\ gen_program = Len(programs)
    /\ gen_state' = "done"
    /\ open_logs' \in Dropped(open_logs, gen_program)
    /\ UNCHANGED <<frameVars, plotVars, findVars, searchVars, storeVars, textVars, gen_error,
                   gen_program, gen_rows, gen_row, gen_saved, missing_data>>

NextGen == NextProgram \/ ProcessRow \/ Finish

SpecGen == InitGen /\ [][NextGen]_vars

(***************************************************************************)
(* Claims about start_autogenerate                                         *)
(***************************************************************************)
\* whether a grade file found for the row holds a text entry
FoundText(row) ==
    \E d \in DOMAIN row.found : \E k \in DOMAIN row.found[d] :
        LET g == row.found[d][k].grades
        IN  \E col \in DOMAIN g : \E e \in DOMAIN g[col] :
                isinstance_str(g[col][e])

\* the rows the missing data file of the program in hand has a line for
LoggedRows ==
    {missing_data[programs[gen_program]][k].rownum :
        k \in DOMAIN missing_data[programs[gen_program]]}

\* C3: a text entry in a grade data set does not abort start_autogenerate:
\* once the row whose grade file holds the text entry has been processed, no
\* exception has left the run, and the missing data file has a line for the
\* row.
C3_TextRowSkippedAndLogged ==
    (gen_row # NoRow /\ FoundText(gen_row)) =>
        /\ gen_state # "raised"
        /\ gen_row.rownum \in LoggedRows

\* the row is marked as not assessed and passed over
NotAssessed(row) ==
    row.Assessed.kind = "str" /\ lower(row.Assessed.s) = <<"n", "o">>

\* no grade file was found for the row in any directory
NoFileFound(row) == \A d \in DOMAIN row.found : row.found[d] = <<>>

\* the row could not be resolved: its bins are absent or no numbers, or no
\* directory holds a grade file for it
Unresolved(row) ==
    /\ ~NotAssessed(row)
    /\ \/ row.Bins.cell \in {"np.nan", "nan", "words"}
       \/ NoFileFound(row)

LogTexts == {"Missing bin ranges", "No useable bins", "Missing data"}

\* one pass of the row loop that ends without an exception
RowPassed ==
    /\ gen_rows'.done = gen_rows.done + 1
    /\ gen_state' = "running"

\* the loop over the rows of a program begins
ProgramBegun ==
    /\ gen_program' = gen_program + 1
    /\ gen_state' = "running"

\* C17: the missing data file of a program starts empty, and every row the
\* run gets through adds exactly one line naming the row when the row could
\* not be resolved (bins absent, bins that are no numbers, no grade file in
\* any directory) and no line when it was resolved; so the file of a
\* completed program holds one line per unresolved row and no other.
C17_OneLinePerUnresolvedRow ==
    [][/\ ProgramBegun => missing_data'[programs[gen_program']] = <<>>
       /\ RowPassed =>
              LET p == programs[gen_program]
              IN  IF Unresolved(gen_row')
                  THEN \E text \in LogTexts :
                           missing_data'[p] =
                               Append(missing_data[p],
                                      Line(text, gen_row'.rownum))
                  ELSE missing_data'[p] = missing_data[p]]_vars

\* a program of two rows completed: the second row had no grade file and
\* is the only one with a line, beside its blank histogram
C17_Witness ==
    /\ gen_state = "running"
    /\ gen_rows = [n |-> 2, done |-> 2, before |-> 0]
    /\ gen_row.rownum = 2
    /\ NoFileFound(gen_row)
    /\ gen_saved # <<>>
    /\ missing_data[programs[gen_program]] = <<Line("Missing data", 2)>>

IsPrefix(s, t) == Len(s) <= Len(t) /\ SubSeq(t, 1, Len(s)) = s

\* C18: the missing data file is append-only across runs: whatever lines a
\* program's file holds stay in it, ahead of the new ones, through every
\* step of a later run.
C18_AppendOnly ==
    [][\A p \in DOMAIN missing_data :
           IsPrefix(missing_data[p], missing_data'[p])]_vars

\* C19: every missing data file the run opens is closed when its program
\* ends: while a program is in hand no other file is open, and none is open
\* once the run has ended, by return or by exception.
C19_LogsClosed ==
    /\ gen_state = "running" => open_logs \subseteq {programs[gen_program]}
    /\ gen_state \in {"done", "raised"} => open_logs = {}

\* bins that may be histogrammed: four or more numbers, strictly ascending
SoundBins(cell) ==
    /\ cell.cell = "numbers"
    /\ Len(cell.floats) >= 4
    /\ \A i \in 1..(Len(cell.floats) - 1) : cell.floats[i] < cell.floats[i + 1]

\* C20: a row is histogrammed only with bins that are four or more strictly
\* ascending numbers, held by the Report as five boundaries when four were
\* given; a row whose bins are absent, no numbers, too short or not
\* ascending is passed over with a line in the missing data file, nothing
\* saved for it and no exception.
C20_OnlySoundBinsHistogrammed ==
    (gen_row # NoRow /\ gen_row.Assessed.kind # "null"
        /\ ~NotAssessed(gen_row)) =>
        IF SoundBins(gen_row.Bins)
        THEN Len(gen_row.Bins.floats) = 4 =>
                 ReportBins(parse_row(gen_row)) = <<0>> \o gen_row.Bins.floats
        ELSE /\ gen_state # "raised"
             /\ gen_saved = <<>>
             /\ gen_row.rownum \in LoggedRows

(***************************************************************************)
(* textformatting.format_bin_ranges and format_coop_bins                   *)
(***************************************************************************)
\* the largest boundary drawn for the b that are not named below
MaxBoundary == 7

DigitChars == <<"0", "1", "2", "3", "4", "5", "6", "7", "8", "9">>

RECURSIVE NatDigits(_)
\* the decimal digits of a natural number
NatDigits(n) ==
    IF n < 10 THEN <<DigitChars[n + 1]>>
    ELSE NatDigits(n \div 10) \o <<DigitChars[(n % 10) + 1]>>

\* "{:.0f}".format(n) of a whole number
Str0f(n) == IF n < 0 THEN <<"-">> \o NatDigits(-n) ELSE NatDigits(n)

RECURSIVE CoopRanges(_, _, _)
\* lines 131-132: the boundary of every label after the first (0-based i)
CoopRanges(b, labels, i) ==
    IF i > Len(labels) - 1 THEN <<>>
    ELSE Str0f(b[i + 2]) \o <<":", " ">> \o labels[i + 1] \o <<" ", " ", " ">>
             \o CoopRanges(b, labels, i + 1)

\* format_coop_bins(bins, bin_labels)
format_coop_bins(b, labels) ==
    <<"B", "i", "n", " ", "r", "a", "n", "g", "e", "s", ":", " ", "m", "a", "r", "k", "s", " ", "o", "u", "t", " ", "o", "f", " ", "5", "<", "b", "r", ">">>
        \o <<"<", "=">> \o Str0f(b[2]) \o <<":", " ">> \o labels[1] \o <<" ", " ", " ">>
        \o CoopRanges(b, labels, 1)

\* the same with the floor written out whatever it is
FirstRangeFromFloor(b, labels) ==
    Str0f(b[1]) \o <<"-">> \o Str0f(b[2] - 1) \o <<":", " ">> \o labels[1]
        \o <<" ", " ", " ">>

\* lines 94-98: the range of the first label
FirstRange(b, labels) ==
    IF b[1] <= 0
    THEN <<"<">> \o Str0f(b[2]) \o <<":", " ">> \o labels[1] \o <<" ", " ", " ">>
    ELSE Str0f(b[1]) \o <<"-">> \o Str0f(b[2] - 1) \o <<":", " ">>
             \o labels[1] \o <<" ", " ", " ">>

RECURSIVE MiddleRanges(_, _, _)
\* lines 101-102: the ranges of the labels between the first and the last
MiddleRanges(b, labels, i) ==
    IF i > Len(labels) - 2 THEN <<>>
    ELSE Str0f(b[i + 1]) \o <<"-">> \o Str0f(b[i + 2] - 1) \o <<":", " ">>
             \o labels[i + 1] \o <<" ", " ", " ">>
             \o MiddleRanges(b, labels, i + 1)

\* format_bin_ranges(bins, bin_labels)
format_bin_ranges(b, labels) ==
    LET size == Len(labels)
    IN  IF b[Len(b)] - b[Len(b) - 1] = 1
        THEN format_coop_bins(b, labels)
        ELSE <<"B", "i", "n", " ", "r", "a", "n", "g", "e", "s", ":", " ", "m", "a", "r", "k", "s", " ", "o", "u", "t", " ", "o", "f", " ">> \o Str0f(b[size + 1]) \o <<"<", "b", "r", ">">>
                 \o FirstRange(b, labels)
                 \o MiddleRanges(b, labels, 1)
                 \o Str0f(b[size]) \o <<"-">> \o Str0f(b[size + 1])
                 \o <<":", " ">> \o labels[size]

\* the four labels of the function test
RangeLabels ==
    << <<"B", "e", "l", "o", "w", " ", "E", "x", "p", "e", "c", "t", "a", "t", "i", "o", "n", "s">>, <<"M", "a", "r", "g", "i", "n", "a", "l", "l", "y", " ", "M", "e", "e", "t", "s", " ", "E", "x", "p", "e", "c", "t", "a", "t", "i", "o", "n", "s">>,
       <<"M", "e", "e", "t", "s", " ", "E", "x", "p", "e", "c", "t", "a", "t", "i", "o", "n", "s">>, <<"E", "x", "c", "e", "e", "d", "s", " ", "E", "x", "p", "e", "c", "t", "a", "t", "i", "o", "n", "s">> >>

\* the bins of the function test
bins_standard == <<0, 50, 60, 80, 100>>
bins_engone == <<0, 55, 60, 80, 100>>
bins_coop == <<0, 2, 3, 4, 5>>

\* strictly ascending boundaries, the floor below, at and above 0
AscendingBins ==
    {b \in [1..5 -> -1..MaxBoundary] : \A i \in 1..4 : b[i] < b[i + 1]}

RangeBins == {bins_standard, bins_engone, bins_coop} \cup AscendingBins

InitRanges ==
    /\ IdlePlot /\ IdleFind /\ IdleSearch /\ IdleStore /\ IdleGen /\ IdleFrames
    /\ text_call = NoCall

\* a call of format_bin_ranges(bins, bin_labels)
FormatBinRanges ==
    /\ text_call = NoCall
    /\ \E b \in RangeBins :
           text_call' = [fn |-> "format_bin_ranges", bins |-> b,
                         bin_labels |-> RangeLabels,
                         returned |-> format_bin_ranges(b, RangeLabels)]
    /\ UNCHANGED <<frameVars, plotVars, findVars, searchVars, storeVars, genVars>>

NextRanges == FormatBinRanges

SpecRanges == InitRanges /\ [][NextRanges]_vars

(***************************************************************************)
(* Claims about format_bin_ranges                                          *)
(***************************************************************************)
\* the position of the first occurrence of sub in str, 0 when there is none
Find(str, sub) ==
    IF Contains(str, sub)
    THEN CHOOSE i \in 1..Len(str) :
             /\ startswith(SubSeq(str, i, Len(str)), sub)
             /\ \A j \in 1..(i - 1) :
                    ~startswith(SubSeq(str, j, Len(str)), sub)
    ELSE 0

RECURSIVE SplitOn(_, _)
\* str.split(sep)
SplitOn(str, sep) ==
    LET at == Find(str, sep)
    IN  IF at = 0 THEN <<str>>
        ELSE <<SubSeq(str, 1, at - 1)>>
                 \o SplitOn(SubSeq(str, at + Len(sep), Len(str)), sep)

RECURSIVE ParseNat(_, _)
\* int() of a run of digits, acc the value of the digits read so far
ParseNat(str, acc) ==
    IF str = <<>> THEN acc
    ELSE ParseNat(Tail(str), acc * 10 + DigitValue(Head(str)))

RECURSIVE NumbersIn(_, _)
\* the numbers written in str, in order: its maximal runs of digits, run
\* the digits of the number being read
NumbersIn(str, run) ==
    IF str = <<>>
    THEN IF run = <<>> THEN <<>> ELSE <<ParseNat(run, 0)>>
    ELSE IF Head(str) \in Digits
         THEN NumbersIn(Tail(str), run \o <<Head(str)>>)
         ELSE IF run = <<>> THEN NumbersIn(Tail(str), <<>>)
              ELSE <<ParseNat(run, 0)>> \o NumbersIn(Tail(str), <<>>)

\* the returned text's first line and its entries, one per label
RangesCalled == text_call.fn = "format_bin_ranges"
TextLines == SplitOn(text_call.returned, <<"<", "b", "r", ">">>)
RangeEntries == SplitOn(TextLines[2], <<" ", " ", " ">>)

\* the range read back from an entry 'lo-hi: label', and from an entry
\* '<hi: label' read as every mark from 0 to below hi
RangeOf(entry) ==
    LET nums == NumbersIn(SubSeq(entry, 1, Find(entry, <<":", " ">>) - 1), <<>>)
    IN  IF Head(entry) = "<" THEN <<0, nums[1] - 1>> ELSE nums

\* the call is one of five strictly ascending boundaries, not co-op ones,
\* with four labels
StandardCall ==
    /\ RangesCalled
    /\ Len(text_call.bins) = 5 /\ Len(text_call.bin_labels) = 4
    /\ \A i \in 1..4 : text_call.bins[i] < text_call.bins[i + 1]
    /\ text_call.bins[5] - text_call.bins[4] # 1

\* the text names 'marks out of b4' and has one entry per label, and the
\* entries of all labels but the first give (b_i, b_{i+1}-1), the last
\* (b3, b4)
LaterPairsReadBack ==
    /\ startswith(TextLines[1], <<"B", "i", "n", " ", "r", "a", "n", "g", "e", "s", ":", " ", "m", "a", "r", "k", "s", " ", "o", "u", "t", " ", "o", "f", " ">>)
    /\ NumbersIn(TextLines[1], <<>>) = <<text_call.bins[5]>>
    /\ Len(RangeEntries) = 4
    /\ \A i \in 1..4 :
           startswith(RangeEntries[i], <<"<">>) = (i = 1 /\ text_call.bins[1] <= 0)
    /\ \A i \in 2..3 :
           RangeOf(RangeEntries[i])
               = <<text_call.bins[i], text_call.bins[i + 1] - 1>>
    /\ RangeOf(RangeEntries[4]) = <<text_call.bins[4], text_call.bins[5]>>

\* C21 as stated: format_bin_ranges of [0,50,60,80,100] with 4 labels
\* yields text whose numbers, read back, give the ranges 0-49, 50-59, 60-79
\* and 80-100; for any strictly ascending integer bins b0..b4 that are not
\* co-op bins the text names 'marks out of b4' and one range per label from
\* which every pair (b_i, b_{i+1}-1), and (b3, b4) for the last label, can
\* be read back.
C21_EveryPairReadBack ==
    StandardCall =>
        /\ LaterPairsReadBack
        /\ RangeOf(RangeEntries[1])
               = <<text_call.bins[1], text_call.bins[2] - 1>>

\* C21 as amended: the same, except that the first label's entry is
\* '<b1' when b0 <= 0, from which the upper end b1-1 can be read back and
\* the floor b0 cannot: it reads as 0-(b1-1) whatever b0 is. With b0 > 0
\* the first pair (b0, b1-1) is read back as well.
C21_PairsReadBackButFloor ==
    StandardCall =>
        /\ LaterPairsReadBack
        /\ RangeOf(RangeEntries[1])
               = <<IF text_call.bins[1] <= 0 THEN 0 ELSE text_call.bins[1],
                   text_call.bins[2] - 1>>
        /\ text_call.bins = bins_standard =>
               [i \in 1..4 |-> RangeOf(RangeEntries[i])]
                   = <<<<0, 49>>, <<50, 59>>, <<60, 79>>, <<80, 100>>>>

\* boundaries with a floor below 0, whose first entry reads as from 0
C21_Witness ==
    /\ StandardCall
    /\ text_call.bins[1] < 0
    /\ RangeOf(RangeEntries[1]) = <<0, text_call.bins[2] - 1>>

(***************************************************************************)
(* Further claims about start_autogenerate and gen_and_save_histograms     *)
(***************************************************************************)
\* C22: a row whose 'Assessed' cell is 'no' in any letter case is skipped
\* before its bins are looked at: whatever its Bins cell holds and whatever
\* grade files there are for it, no exception leaves the run, no histogram
\* is saved for it, the missing data file gets no line for it, and the next
\* row of the query, if there is one, is processed.
C22_NotAssessedRowSkipped ==
    (gen_row # NoRow /\ NotAssessed(gen_row)) =>
        /\ gen_state # "raised"
        /\ gen_error = "none"
        /\ gen_saved = <<>>
        /\ gen_row.rownum \notin LoggedRows
        /\ gen_rows.done < gen_rows.n => ENABLED ProcessRow

\* a row marked 'NO' with bins absent passed over, a grade file for it in
\* the program's directory, and a row after it
C22_Witness ==
    /\ gen_row # NoRow
    /\ gen_row.Assessed.s = <<"N", "O">>
    /\ gen_row.Bins.cell = "np.nan"
    /\ ~NoFileFound(gen_row)
    /\ gen_saved = <<>>
    /\ gen_state = "running"
    /\ gen_rows.done < gen_rows.n

(***************************************************************************)
(* Further claims about Report.plot                                        *)
(***************************************************************************)
\* the share of 'no data' marks of column col is exactly the threshold
ExactlyAtThreshold(col) ==
    /\ Present(col) # {}
    /\ 100 * Cardinality(NoData(col))
           = config.NDA_threshold * Cardinality(Present(col))

\* C23: with show_NDA true, a series whose 'No Data Available' percentage
\* is greater than or equal to NDA_threshold, exactly equal included, makes
\* the 'No Data Available' bin appear for all plots of the report: every
\* bar trace starts with that label and has a value for it.
C23_AtThresholdShowsNDA ==
    (/\ plot_state = "plotted"
     /\ config.show_NDA
     /\ \E col \in DOMAIN grades :
            ExactlyAtThreshold(col) \/ AboveThreshold(col)) =>
        \A t \in TraceIds :
            /\ Head(traces[t].x) = NDALabel
            /\ Len(traces[t].y) = Len(bins)

\* two series plotted, the second exactly at the threshold and the first
\* with no 'no data' mark at all, both with the 'No Data Available' bin
C23_Witness ==
    /\ plot_state = "plotted"
    /\ config.show_NDA
    /\ Len(grades) = 2
    /\ NoData(1) = {} /\ Present(1) # {}
    /\ ExactlyAtThreshold(2)
    /\ Len(traces) = 2
    /\ \A t \in TraceIds : Head(traces[t].x) = NDALabel

\* the row in hand got as far as gen_and_save_histograms
Histogrammed(row) == row # NoRow /\ Searches(row.Assessed, row.Bins)

\* the directories searched for the row in hand, in priority order
RowDirs == search_list(programs[gen_program])

\* the first directory in priority order with a grade file for the row
FirstNonEmpty(row) ==
    RowDirs[CHOOSE i \in DOMAIN RowDirs :
                /\ row.found[RowDirs[i]] # <<>>
                /\ \A j \in 1..(i - 1) : row.found[RowDirs[j]] = <<>>]

\* the histograms saved under directory to that were made from a grade file
\* of directory from
SavedFromTo(from, to) ==
    {k \in DOMAIN gen_saved :
        gen_saved[k].data_from = from /\ gen_saved[k].dir = to}

\* the names of the histograms of a set of saves are all different
DistinctNames(saves) ==
    \A j, k \in saves : j # k => gen_saved[j].name # gen_saved[k].name

\* C24: for a row with a grade file in some directory and no exception,
\* every directory with matched files receives one histogram per file of
\* its own; when the top-priority directory has no matched file it receives
\* a copy of every histogram made from the first non-empty directory in
\* priority order and of no other; nothing else is saved: a lower-priority
\* directory without a match receives nothing, and with matches in the
\* top-priority directory there is no extra copy anywhere.
C24_CopiesOfFirstNonEmptyOnly ==
    (Histogrammed(gen_row) /\ ~NoFileFound(gen_row) /\ gen_state # "raised") =>
        LET found == gen_row.found
            top == RowDirs[1]
            first == FirstNonEmpty(gen_row)
            own == UNION {SavedFromTo(d, d) : d \in Range(RowDirs)}
            copies == IF found[top] = <<>> THEN SavedFromTo(first, top)
                      ELSE {}
        IN  /\ \A d \in Range(RowDirs) :
                   /\ Cardinality(SavedFromTo(d, d)) = Len(found[d])
                   /\ DistinctNames(SavedFromTo(d, d))
            /\ found[top] = <<>> =>
                   /\ Cardinality(copies) = Len(found[first])
                   /\ {gen_saved[k].name : k \in copies}
                          = {gen_saved[k].name : k \in SavedFromTo(first, first)}
            /\ DOMAIN gen_saved = own \cup copies

\* nothing in the program's directory, one grade file in the first backup
\* directory and two in the second: four histograms, one of them the copy
C24_Witness ==
    /\ Histogrammed(gen_row)
    /\ gen_state = "running"
    /\ gen_row.found[RowDirs[1]] = <<>>
    /\ Len(gen_row.found[RowDirs[2]]) = 1
    /\ Len(gen_row.found[RowDirs[3]]) = 2
    /\ Len(gen_saved) = 4
    /\ Cardinality(SavedFromTo(RowDirs[2], RowDirs[1])) = 1
    /\ SavedFromTo(RowDirs[3], RowDirs[1]) = {}

\* the saves of the placeholder 'no data' histogram
Placeholders ==
    {k \in DOMAIN gen_saved : gen_saved[k].data_from = "NO DATA FOUND"}

\* C25: for a row that gets as far as gen_and_save_histograms, a
\* placeholder 'no data' histogram is produced exactly when every directory
\* of the priority list has an empty match list; in that case no exception
\* is raised, the placeholder is saved under the indicator's own program
\* directory and nothing under a backup directory, and the next row of the
\* query, if there is one, is processed.
C25_PlaceholderIffNothingFound ==
    Histogrammed(gen_row) =>
        /\ (Placeholders # {}) = NoFileFound(gen_row)
        /\ NoFileFound(gen_row) =>
               /\ gen_state # "raised"
               /\ \A k \in DOMAIN gen_saved :
                      gen_saved[k].dir = programs[gen_program]
               /\ gen_rows.done < gen_rows.n => ENABLED ProcessRow

(***************************************************************************)
(* Report.generate_report: Report(...), plot and add_bin_ranges for the    *)
(* grade files of one indicator row, all from the caller's one bins list   *)
(***************************************************************************)
\* the entries of a plotted column
MaxMarks == 2

\* bins lists of a row: the co-op scale with and without its floor, a
\* co-op scale with a floor of 1, and the standard boundaries
MarkBinLists ==
    { <<0, 2, 3, 4, 5>>, <<2, 3, 4, 5>>, <<1, 2, 3, 4, 5>>,
      <<0, 50, 60, 80, 100>>, <<50, 60, 80, 100>> }

\* integer marks from the first boundary to the last: all of them on a
\* co-op scale, else every boundary and the marks next to it
IntegerMarks(b) ==
    IF IsCoop(b) THEN b[1]..b[Len(b)]
    ELSE {m \in UNION {{b[i] - 1, b[i], b[i] + 1} : i \in DOMAIN b} :
             b[1] <= m /\ m <= b[Len(b)]}

\* grade files of one column of integer marks, and beside them one with a
\* text entry and one with a padded column and a 'no data' mark
MarkFrames(b) ==
    UNION { SeqsOfLen(SeqsOfLen({Num(m) : m \in IntegerMarks(b)}, n), 1) :
                n \in 1..MaxMarks }
        \cup { << <<Text>> >>, << <<Num(b[2]), NaN>>, <<Num(-1), Num(-1)>> >> }

InitReports ==
    \E cfg \in Configs, bins_arg \in MarkBinLists :
        /\ config = cfg
        /\ bins = ReportBins(bins_arg)
        /\ caller_bins = bins_arg
        /\ bin_labels = DefaultBinLabels
        /\ traces = <<>>
        /\ grades = <<>>
        /\ plot_state = "new"
        /\ plot_log = <<>>
        /\ IdleFind /\ IdleSearch /\ IdleStore /\ IdleGen /\ IdleText /\ IdleFrames

\* report.plot(grades) of the report in hand
PlotMarks ==
    /\ plot_state = "new"
    /\ \E g \in MarkFrames(bins) :
        LET r == PlotResult(config, bins, bin_labels, g)
        IN  /\ grades' = g
            /\ traces' = traces \o r.bars
            /\ plot_log' = plot_log \o r.logged
            /\ plot_state' = IF r.raised THEN "ValueError" ELSE "plotted"
    /\ bins' = BinsAfterPlot(config, bins)
    /\ caller_bins' = CallerBins(caller_bins, bins')
    /\ UNCHANGED <<config, bin_labels>>
    /\ UNCHANGED <<frameVars, findVars, searchVars, storeVars, genVars, textVars>>

\* report.add_bin_ranges(): the text of the annotation, the labels spelled
\* out character by character
AddBinRanges ==
    /\ plot_state = "plotted"
    /\ text_call = NoCall
    /\ text_call' = [fn |-> "format_bin_ranges", bins |-> bins,
                     bin_labels |-> RangeLabels,
                     returned |-> format_bin_ranges(bins, RangeLabels)]
    /\ UNCHANGED <<frameVars, plotVars, findVars, searchVars, storeVars, genVars>>

\* Report(indicator_data, bins, config) for the next grade file of the row
NextReport ==
    /\ plot_state = "plotted"
    /\ text_call # NoCall
    /\ NewReport(config, caller_bins)
    /\ text_call' = NoCall
    /\ UNCHANGED <<frameVars, findVars, searchVars, storeVars, genVars>>

NextReports == PlotMarks \/ AddBinRanges \/ NextReport

SpecReports == InitReports /\ [][NextReports]_vars

(***************************************************************************)
(* Claims about the bins of a report                                       *)
(***************************************************************************)
\* the entries of the co-op text, one per label, and the mark each names
CoopEntries ==
    SelectSeq(SplitOn(SplitOn(text_call.returned, <<"<", "b", "r", ">">>)[2], <<" ", " ", " ">>),
              LAMBDA e : e # <<>>)

NamedMark(i) ==
    NumbersIn(SubSeq(CoopEntries[i], 1, Find(CoopEntries[i], <<":", " ">>) - 1),
              <<>>)[1]

\* the category format_coop_bins describes for mark m: the first for the
\* marks of '<=n', else the one of the entry that names m
DescribedCategory(m) ==
    IF m <= NamedMark(1) THEN 1
    ELSE CHOOSE i \in 2..Len(CoopEntries) : NamedMark(i) = m

\* the category of mark m with the boundaries as they are: b_i <= m <
\* b_{i+1}, the last one with its upper boundary
UnshiftedCategory(m) ==
    CHOOSE i \in 1..(Len(bins) - 1) : InBucket(m, bins, i)

\* the grade file plotted holds integer marks from the first boundary to the
\* last and nothing else
OnlyIntegerMarks ==
    \A col \in DOMAIN grades : \A k \in DOMAIN grades[col] :
        /\ grades[col][k].kind = "num"
        /\ grades[col][k].v \in IntegerMarks(bins)

\* the marks of column col that belong to category i
MarksOf(col, Category(_), i) ==
    Cardinality({k \in DOMAIN grades[col] : Category(grades[col][k].v) = i})

\* line 140: the count np.histogram gives for category i of column col,
\* which comes after the 'no data' bucket when show_NDA is set
CountedIn(col, i) ==
    np_histogram(DataToHistogram(grades[col]), BinsCopy(config, bins))
        [IF config.show_NDA THEN i + 1 ELSE i]

\* the value the bar trace t shows over the label of category i
ShownOver(t, i) ==
    traces[t].y[i + Len(traces[t].x) - Len(bin_labels)]

\* C26: on a co-op scale (last two boundaries 1 apart) plot buckets with
\* the boundaries moved up by 1, so that every integer mark from the first
\* boundary to the last is counted in the category that the text of
\* format_coop_bins describes for it, as for [0,2,3,4,5] the marks 0, 1, 2
\* in the first, 3 in the second, 4 in the third and 5 in the fourth
\* category; with any other bins the marks are counted by the boundaries
\* unshifted. With show_NDA set the bars show these counts, as shares of
\* the column, over the labels of their categories.
C26_CoopMarksInDescribedCategory ==
    (plot_state = "plotted" /\ text_call # NoCall /\ OnlyIntegerMarks) =>
        \A col \in DOMAIN grades : \A i \in DOMAIN bin_labels :
            LET n == IF IsCoop(bins)
                     THEN MarksOf(col, DescribedCategory, i)
                     ELSE MarksOf(col, UnshiftedCategory, i)
            IN  /\ CountedIn(col, i) = n
                /\ config.show_NDA =>
                       \A t \in TraceIds :
                           traces[t].name = col =>
                               ShownOver(t, i) = Pct(n, Len(grades[col]))

\* the marks 2 and 5 on the scale [0,2,3,4,5]: half in the first category
\* and half in the fourth
C26_Witness ==
    /\ plot_state = "plotted" /\ text_call # NoCall
    /\ config.show_NDA
    /\ bins = bins_coop
    /\ grades = << <<Num(2), Num(5)>> >>
    /\ Len(traces) = 1
    /\ ShownOver(1, 1) = Pct(1, 2)
    /\ ShownOver(1, 4) = Pct(1, 2)

\* a call of plot: the step from a report just built
PlotCalled == plot_state = "new" /\ plot_state' # "new"

MaxOld == 3

\* old_file[cohort], a list: the cohort may have no column in the old file
NoColumn == [there |-> FALSE, v |-> <<>>]
Column(v) == [there |-> TRUE, v |-> v]

OldColumns ==
    {NoColumn}
        \cup {Column(v) : v \in UNION {SeqsOfLen({Num(3), Num(4), NaN}, n) :
                                           n \in 0..MaxOld}}

\* grades_dict[course][question][cohort]: the values of the new rows
NewGrades == { <<Num(5)>>, <<Num(2), Num(5)>>, <<Num(5), NaN>> }

\* list.remove(x) takes out the first entry that is x or equals x. No NaN
\* equals another, so that is the entry in hand when every NaN of the list
\* is an object of its own (the floats of tolist()), and the first NaN of
\* the list when they are all the one object np.nan (an object column)
RemovedAt(lst, i, one_object) ==
    IF one_object
    THEN CHOOSE f \in 1..i :
             isnull(lst[f]) /\ \A j \in 1..(f - 1) : ~isnull(lst[j])
    ELSE i

RECURSIVE StripNulls(_, _, _)
\* lines 96-98: 'for x in old_file[cohort]: if pd.isnull(x): remove(x)';
\* the list iterator goes on to position i + 1 of the list as it is by then
StripNulls(lst, i, one_object) ==
    IF i > Len(lst) THEN lst
    ELSE IF isnull(lst[i])
    THEN LET at == RemovedAt(lst, i, one_object)
         IN  StripNulls(SubSeq(lst, 1, at - 1) \o SubSeq(lst, at + 1, Len(lst)),
                        i + 1, one_object)
    ELSE StripNulls(lst, i + 1, one_object)

\* lines 93-101: old_file[cohort] after the merge
MergeCohort(old, new, one_object) ==
    IF old.there THEN StripNulls(old.v, 1, one_object) \o new ELSE new

InitSheet ==
    /\ IdlePlot /\ IdleFind /\ IdleSearch /\ IdleStore /\ IdleGen /\ IdleText
    /\ ready_call = NoCall
    /\ sheet_call = NoCall

\* one pass of the loop over the cohorts of the new grades
MergeCohortColumn ==
    /\ sheet_call = NoCall
    /\ \E old \in OldColumns, new \in NewGrades, one_object \in BOOLEAN :
           sheet_call' = [fn |-> "separate_coop_sheet", old |-> old,
                          new |-> new, one_object |-> one_object,
                          merged |-> MergeCohort(old, new, one_object)]
    /\ UNCHANGED <<plotVars, findVars, searchVars, storeVars, genVars,
                   textVars, ready_call>>

NextSheet == MergeCohortColumn

SpecSheet == InitSheet /\ [][NextSheet]_vars

(***************************************************************************)
(* Claims about separate_coop_sheet                                        *)
(***************************************************************************)
\* C28: when new grades are merged into a cohort column of an existing
\* grade file, the merged column holds the old column's non-null values in
\* order followed by the new values: no null entry of the old column
\* remains, however many it held and wherever they sat.
C28_OldNullsStripped ==
    (sheet_call # NoCall /\ sheet_call.old.there) =>
        sheet_call.merged = NonNull(sheet_call.old.v) \o sheet_call.new

(***************************************************************************)
(* ReportGenerator.ready_DataFrame and grades_org.cols_to_cohorts          *)
(***************************************************************************)
\* the columns of a grade file
MaxColumns == 2

\* a column header as read_excel gives it: an integer or text
IntHeader(n) == [kind |-> "int", v |-> n, s |-> <<>>]
StrHeader(s) == [kind |-> "str", v |-> 0, s |-> s]

\* three academic years with the semester behind them, and a column that
\* is no year
Headers ==
    { IntHeader(201203), IntHeader(201703), IntHeader(201803),
      StrHeader(<<"N", "o", "t", "e", "s">>) }

\* the entries of a column: one mark, or one mark and the null of a column
\* shorter than another
HeadedColumns ==
    [header : Headers, entries : {<<Num(55)>>, <<Num(55), NaN>>}]

\* grade files of up to MaxColumns columns, no header twice
GradeFrames ==
    {g \in UNION {SeqsOfLen(HeadedColumns, n) : n \in 1..MaxColumns} :
        \A i, j \in DOMAIN g : i # j => g[i].header # g[j].header}

\* self.cohorts: None, or a list of cohorts
NoFilter == [given |-> FALSE, v |-> <<>>]

CohortFilters ==
    { NoFilter, Given(<<>>), Given(<<2017>>), Given(<<2022>>),
      Given(<<2023, 2022>>), Given(<<2017, 2021>>) }

\* course and term_offered as gen_and_save_histograms passes them
ReadyCourse == Course(<<"E", "N", "G", "I", "1", "0", "1", "0">>)
TermsOffered == {None, Given(3)}

\* tf.get_cohort(col, course=..., term_taken=...) for a column header:
\* int(year) raises ValueError for text that is no number
HeaderCohort(header, course, term_offered) ==
    IF header.kind = "str" THEN [raised |-> "ValueError", returned |-> 0]
    ELSE get_cohort(header.v, course, term_offered)

\* str() of a column header
HeaderStr(header) ==
    IF header.kind = "int" THEN Str0f(header.v) ELSE header.s

\* grades_org.cols_to_cohorts: "CO{}: {} STUDENTS" per column, or the
\* exception of the first column get_cohort raises for
cols_to_cohorts(g, course, term_offered) ==
    IF \E i \in DOMAIN g :
           HeaderCohort(g[i].header, course, term_offered).raised # "none"
    THEN [raised |-> TRUE, columns |-> <<>>]
    ELSE [raised |-> FALSE,
          columns |->
              [i \in DOMAIN g |->
                  <<"C", "O">>
                      \o Str0f(HeaderCohort(g[i].header, course,
                                            term_offered).returned)
                      \o <<":", " ">> \o Str0f(true_size(g[i].entries))
                      \o <<" ", "S", "T", "U", "D", "E", "N", "T", "S">>]]

\* lines 462-480: the column names after the renaming, "{crs}({sz})" for
\* every column when cols_to_cohorts raised
RenamedColumns(g, course, term_offered) ==
    LET named == cols_to_cohorts(g, course, term_offered)
    IN  [i \in DOMAIN g |->
            [name |-> IF named.raised
                      THEN HeaderStr(g[i].header) \o <<"(">>
                               \o Str0f(true_size(g[i].entries)) \o <<")">>
                      ELSE named.columns[i],
             entries |-> g[i].entries,
             col |-> i]]

\* line 499: pd.Series([-1], name="Co{}: NDA".format(str(c)))
NDAColumn(c) ==
    [name |-> <<"C", "o">> \o Str0f(c) \o <<":", " ", "N", "D", "A">>, entries |-> <<Num(-1)>>,
     col |-> 0]

\* lines 488-499: the columns appended for the requested cohort c
ColumnsForCohort(columns, c) ==
    LET matched == SelectSeq(columns, LAMBDA x : Contains(x.name, Str0f(c)))
    IN  IF matched = <<>> THEN <<NDAColumn(c)>> ELSE matched

RECURSIVE FilteredColumns(_, _)
\* lines 486-499: new_grades_cols after the loop over self.cohorts
FilteredColumns(columns, cohorts) ==
    IF cohorts = <<>> THEN <<>>
    ELSE ColumnsForCohort(columns, Head(cohorts))
             \o FilteredColumns(columns, Tail(cohorts))

\* ready_DataFrame(grades, course, term_offered): pd.concat of no column
\* at all raises ValueError
ready_DataFrame(g, course, term_offered, cohorts) ==
    LET columns == RenamedColumns(g, course, term_offered)
    IN  IF ~cohorts.given THEN [raised |-> "none", columns |-> columns]
        ELSE IF cohorts.v = <<>>
        THEN [raised |-> "ValueError", columns |-> <<>>]
        ELSE [raised |-> "none",
              columns |-> FilteredColumns(columns, cohorts.v)]

InitReady ==
    /\ IdlePlot /\ IdleFind /\ IdleSearch /\ IdleStore /\ IdleGen /\ IdleText
    /\ ready_call = NoCall
    /\ sheet_call = NoCall

\* a call of self.ready_DataFrame(grades, course=..., term_offered=...)
ReadyDataFrame ==
    /\ ready_call = NoCall
    /\ \E g \in GradeFrames, term_offered \in TermsOffered,
          cohorts \in CohortFilters :
       \E r \in {ready_DataFrame(g, ReadyCourse, term_offered, cohorts)} :
           ready_call' = [fn |-> "ready_DataFrame", grades |-> g,
                          course |-> ReadyCourse,
                          term_offered |-> term_offered,
                          cohorts |-> cohorts,
                          raised |-> r.raised, returned |-> r.columns]
    /\ UNCHANGED <<plotVars, findVars, searchVars, storeVars, genVars,
                   textVars, sheet_call>>

NextReady == ReadyDataFrame

SpecReady == InitReady /\ [][NextReady]_vars

(***************************************************************************)
(* Claims about ready_DataFrame                                            *)
(***************************************************************************)
\* the call had a cohort filter of at least one cohort
Filtered ==
    /\ ready_call # NoCall
    /\ ready_call.cohorts.given
    /\ ready_call.cohorts.v # <<>>

\* the label of column i of the grade file after the renaming
LabelOf(i) ==
    RenamedColumns(ready_call.grades, ready_call.course,
                   ready_call.term_offered)[i].name

\* the columns of the grade file whose label contains cohort c, in order
Labelled(c) ==
    SelectSeq([i \in DOMAIN ready_call.grades |-> i],
              LAMBDA i : Contains(LabelOf(i), Str0f(c)))

RECURSIVE Grouped(_)
\* per requested cohort, in order, the columns labelled with it or 0 for
\* its placeholder
Grouped(cohorts) ==
    IF cohorts = <<>> THEN <<>>
    ELSE (IF Labelled(Head(cohorts)) = <<>> THEN <<0>>
          ELSE Labelled(Head(cohorts))) \o Grouped(Tail(cohorts))

\* the cohort of column i of the grade file, by its header
CohortOf(i) ==
    HeaderCohort(ready_call.grades[i].header, ready_call.course,
                 ready_call.term_offered)

\* the columns are grouped in the order of the requested cohorts, each
\* group the columns whose label contains the cohort or, exactly when there
\* is none, one placeholder holding the single value -1
GroupedByRequest ==
    /\ ready_call.raised = "none"
    /\ [k \in DOMAIN ready_call.returned |-> ready_call.returned[k].col]
           = Grouped(ready_call.cohorts.v)
    /\ \A k \in DOMAIN ready_call.returned :
           LET x == ready_call.returned[k]
           IN  IF x.col = 0 THEN x.entries = <<Num(-1)>>
               ELSE x.entries = ready_call.grades[x.col].entries

\* C27: with a cohort filter set, ready_DataFrame returns the columns
\* grouped in the order of the requested cohorts: for each requested cohort
\* every grade column whose label contains that cohort, and one placeholder
\* column holding the single value -1 exactly when no column matched; so
\* every requested cohort is represented by at least one column and no
\* column of an unrequested cohort is kept.
C27_OnlyRequestedCohortsKept ==
    Filtered =>
        /\ GroupedByRequest
        /\ \A c \in Range(ready_call.cohorts.v) :
               \E k \in DOMAIN ready_call.returned :
                   Contains(ready_call.returned[k].name, Str0f(c))
        /\ \A k \in DOMAIN ready_call.returned :
               LET x == ready_call.returned[k]
               IN  (x.col # 0 /\ CohortOf(x.col).raised = "none") =>
                       CohortOf(x.col).returned \in Range(ready_call.cohorts.v)

(***************************************************************************)
(* Further claims about get_cohort                                         *)
(***************************************************************************)
\* C30: for a term outside 0..8, given as term_taken or as the first digit
\* of the course, get_cohort raises no error and returns the academic year
\* of its input unchanged, the value it returns for term 0; and whenever
\* get_cohort returns, the result lies between the academic year and the
\* academic year + 5.
C30_OtherTermsReturnYear ==
    CohortCalled =>
        /\ (TermNamed /\ NamedTerm \notin 1..8) =>
               /\ text_call.raised = "none"
               /\ text_call.returned = AcademicYear(text_call.year)
               /\ text_call.returned =
                      get_cohort(text_call.year, NoCourse, Given(0)).returned
        /\ text_call.raised = "none" =>
               /\ AcademicYear(text_call.year) <= text_call.returned
               /\ text_call.returned <= AcademicYear(text_call.year) + 5

\* a year with a semester behind it and the term 9 read from the course
C30_Witness ==
    /\ CohortCalled
    /\ text_call.year = 201703
    /\ ~text_call.term_taken.given
    /\ text_call.course = Course(<<"E", "N", "G", "I", "9", "8", "7", "6">>)
    /\ text_call.raised = "none"
    /\ text_call.returned = 2017

====
